---------------------------- MODULE Spec2Model ----------------------------
(***************************************************************************)
(* Link-layer codecs of Simulador_Camadas_Rede_TR1 (CamadaEnlace), the     *)
(* line codes and sample counts of its physical layer (CamadaFisica) and   *)
(* the orchestrators that chain them (Simulador/main.py, transmissor.py,   *)
(* receptor.py).                                                           *)
(*                                                                         *)
(* A Python bit string ('0'/'1' characters) is a sequence over {0,1}; a    *)
(* Python bytes object is a sequence over 0..255.  Python's unbounded      *)
(* integers, where the code uses them as bit vectors (CRC division), are   *)
(* bit sequences of the width the code itself tracks.                      *)
(***************************************************************************)
EXTENDS Naturals, Integers, Sequences, FiniteSets, TLC

VARIABLES
    \* codec harness: one pure function applied per step
    data,      \* input handed to the transmit-side function
    coded,     \* output of the transmit-side function
    flips,     \* set of 1-indexed positions inverted between the two sides
    recv,      \* input handed to the receive-side function
    result,    \* output of the receive-side function
    status,    \* status / verdict returned by the receive-side function
    phase,     \* which function was applied last
    \* orchestrators
    sim,       \* one call of SimuladorRedes.simular_transmissao_receptor
    tx,        \* one call of run_transmitter: params, config, locals, position
    sock,      \* the TCP connection from transmitter to receiver
    rx,        \* run_receiver: config, locals, position
    gui,       \* the update_callback messages, in emission order, per side
    trace      \* the link-layer operations applied so far, in execution order

harness == <<data, coded, flips, recv, result, status, phase>>

pipeline == <<sim, tx, sock, rx, gui, trace>>

vars == <<data, coded, flips, recv, result, status, phase,
          sim, tx, sock, rx, gui, trace>>

-----------------------------------------------------------------------------
(* Bounds *)

MaxHammingBits == 5
MaxCrcBits == 5
MaxCrcPad == 2
MaxParityBits == 4
MaxCountBits == 8
MaxCountBytes == 2
MaxStuffBits == 9
MaxStuffBytes == 4
MaxLineBits == 5
MaxReceivedBits == 7
MaxRate == 5
MaxSamples == 4
MaxQamBits == 9
MaxQamRate == 2
MaxQamFreq == 1
MaxQamAmplitude == 2

-----------------------------------------------------------------------------
(* Generic helpers *)

Bit == {0, 1}

BitStrings(lo, hi) == UNION {[1..k -> Bit] : k \in lo..hi}

\* "".join(...) of a list given element by element: the tuple of its elements
SeqOf(f) == <<>> \o f

\* st after "for i in range(lo, hi + 1): st = step[st, i]".  The range is
\* split in halves and the first half is run to a value before the second
\* starts, so the evaluation depth grows with log(hi - lo).
RECURSIVE ForRange(_, _, _, _)
ForRange(step, lo, hi, st) ==
    IF lo > hi THEN st
    ELSE IF lo = hi THEN step[st, lo]
    ELSE LET mid == (lo + hi) \div 2
         IN  CHOOSE r \in {ForRange(step, mid + 1, hi, left) :
                              left \in {ForRange(step, lo, mid, st)}} : TRUE

FlipAt(bits, S) ==
    SeqOf([k \in 1..Len(bits) |-> IF k \in S THEN 1 - bits[k] ELSE bits[k]])

RECURSIVE BitAnd(_, _)
BitAnd(a, b) ==
    IF a = 0 \/ b = 0 THEN 0
    ELSE (a % 2) * (b % 2) + 2 * BitAnd(a \div 2, b \div 2)

RECURSIVE BitOr(_, _)
BitOr(a, b) ==
    IF a = 0 /\ b = 0 THEN 0
    ELSE (IF a % 2 = 1 \/ b % 2 = 1 THEN 1 ELSE 0) + 2 * BitOr(a \div 2, b \div 2)

Unset == "unset"

\* an orchestrator that is not running
Idle == "idle"

PipelineIdle ==
    /\ sim = Idle /\ tx = Idle /\ sock = Idle
    /\ rx = Idle /\ gui = Idle /\ trace = <<>>

-----------------------------------------------------------------------------
(* CamadaEnlace/correcao_erros.py : CorrecaoErros *)

determine_parity_bits_inclusive(data_len) ==
    LET loop[m \in Nat] == IF 2^m <= data_len + m + 1 THEN loop[m + 1] ELSE m
    IN  loop[0]

determine_parity_bits(data_len) ==
    LET loop[m \in Nat] == IF 2^m < data_len + m + 1 THEN loop[m + 1] ELSE m
    IN  loop[0]

is_power_of_two(n) == n > 0 /\ BitAnd(n, n - 1) = 0

\* inner loop of both encoder and decoder: the '1's among the positions
\* (1-indexed) that have the bit parity_pos_1_indexed set
count_ones(codeword, parity_pos_1_indexed) ==
    Cardinality({j \in 1..Len(codeword) :
                    BitAnd(j, parity_pos_1_indexed) # 0 /\ codeword[j] = 1})

adicionar_hamming(data_bits) ==
    LET n == Len(data_bits)
        m == determine_parity_bits(n)
        total_len == n + m
        \* step 2: <<codeword, data_idx>>, position i (1-indexed) visited
        place[prev \in Seq(Bit) \X Nat, i \in Nat] ==
            IF ~is_power_of_two(i) /\ prev[2] < n
            THEN <<[prev[1] EXCEPT ![i] = data_bits[prev[2] + 1]], prev[2] + 1>>
            ELSE prev
        placed == ForRange(place, 1, total_len,
                           <<SeqOf([k \in 1..total_len |-> 0]), 0>>)
        \* step 3: codeword after the first i parity bits were filled in
        filled[i \in 0..m] ==
            IF i = 0 THEN placed[1]
            ELSE LET cw == filled[i - 1]
                     parity_pos == 2^(i - 1)
                 IN  IF count_ones(cw, parity_pos) % 2 # 0
                     THEN [cw EXCEPT ![parity_pos] = 1]
                     ELSE cw
    IN  filled[m]

corrigir_hamming_stale_syndrome(codeword) ==
    LET total_len == Len(codeword)
        loop[m \in Nat] == IF 2^m < total_len + 1 THEN loop[m + 1] ELSE m
        m == loop[0]
        syn[i \in 0..m] ==
            IF i = 0 THEN 0
            ELSE IF count_ones(codeword, 2^(i - 1)) % 2 # 0
                 THEN 2^(i - 1)
                 ELSE syn[i - 1]
        syndrome == syn[m]
    IN  IF syndrome > 0
        THEN IF syndrome - 1 < total_len
             THEN <<[codeword EXCEPT ![syndrome] = 1 - codeword[syndrome]], "Erro detectado na posicao (1-indexado) e corrigido.">>
             ELSE <<codeword, "Erro multi-bit detectado ou posicao de erro invalida. Nao e possivel corrigir com Hamming de bit unico.">>
        ELSE <<codeword, "Nenhum erro detectado.">>

corrigir_hamming_silent_multibit(codeword) ==
    LET total_len == Len(codeword)
        loop[m \in Nat] == IF 2^m < total_len + 1 THEN loop[m + 1] ELSE m
        m == loop[0]
        syn[i \in 0..m] ==
            IF i = 0 THEN 0
            ELSE IF count_ones(codeword, 2^(i - 1)) % 2 # 0
                 THEN BitOr(syn[i - 1], 2^(i - 1))
                 ELSE syn[i - 1]
        syndrome == syn[m]
    IN  IF syndrome > 0
        THEN IF syndrome - 1 < total_len
             THEN <<[codeword EXCEPT ![syndrome] = 1 - codeword[syndrome]], "Erro detectado na posicao (1-indexado) e corrigido.">>
             ELSE <<codeword, "Nenhum erro detectado.">>
        ELSE <<codeword, "Nenhum erro detectado.">>

corrigir_hamming_short_syndrome(codeword) ==
    LET total_len == Len(codeword)
        loop[m \in Nat] == IF 2^m < total_len + 1 THEN loop[m + 1] ELSE m
        m == loop[0]
        syn[i \in 0..m] ==
            IF i = 0 THEN 0
            ELSE IF count_ones(codeword, 2^(i - 1)) % 2 # 0
                 THEN BitOr(syn[i - 1], 2^(i - 1))
                 ELSE syn[i - 1]
        syndrome == IF m = 0 THEN 0 ELSE syn[m - 1]
    IN  IF syndrome > 0
        THEN IF syndrome - 1 < total_len
             THEN <<[codeword EXCEPT ![syndrome] = 1 - codeword[syndrome]], "Erro detectado na posicao (1-indexado) e corrigido.">>
             ELSE <<codeword, "Erro multi-bit detectado ou posicao de erro invalida. Nao e possivel corrigir com Hamming de bit unico.">>
        ELSE <<codeword, "Nenhum erro detectado.">>

corrigir_hamming(codeword) ==
    LET total_len == Len(codeword)
        loop[m \in Nat] == IF 2^m < total_len + 1 THEN loop[m + 1] ELSE m
        m == loop[0]
        syn[i \in 0..m] ==
            IF i = 0 THEN 0
            ELSE IF count_ones(codeword, 2^(i - 1)) % 2 # 0
                 THEN BitOr(syn[i - 1], 2^(i - 1))
                 ELSE syn[i - 1]
        syndrome == syn[m]
    IN  IF syndrome > 0
        THEN IF syndrome - 1 < total_len
             THEN <<[codeword EXCEPT ![syndrome] = 1 - codeword[syndrome]], "Erro detectado na posicao (1-indexado) e corrigido.">>
             ELSE <<codeword, "Erro multi-bit detectado ou posicao de erro invalida. Nao e possivel corrigir com Hamming de bit unico.">>
        ELSE <<codeword, "Nenhum erro detectado.">>

remover_redundancia_hamming_zero_indexed(codeword) ==
    LET total_len == Len(codeword)
        keep[acc \in Seq(Bit), i \in Nat] ==
            IF ~is_power_of_two(i - 1) THEN Append(acc, codeword[i]) ELSE acc
    IN  ForRange(keep, 1, total_len, <<>>)

remover_redundancia_hamming(codeword) ==
    LET total_len == Len(codeword)
        keep[acc \in Seq(Bit), i \in Nat] ==
            IF ~is_power_of_two(i) THEN Append(acc, codeword[i]) ELSE acc
    IN  ForRange(keep, 1, total_len, <<>>)

-----------------------------------------------------------------------------
(* Python values the codecs exchange *)

\* a call that returns v / a call that raises ValueError(msg)
Returned(v) == [raised |-> FALSE, value |-> v, message |-> ""]
Raised(msg) == [raised |-> TRUE, value |-> <<>>, message |-> msg]

Zeros(n) == SeqOf([k \in 1..n |-> 0])

Max(a, b) == IF a >= b THEN a ELSE b

CountOnes(bits) == Cardinality({k \in 1..Len(bits) : bits[k] = 1})

\* format(n, '0<w>b') for a small n
FormatBin(n, w) == SeqOf([k \in 1..w |-> (n \div 2^(w - k)) % 2])

\* int(bits, 2) for a short bit string
BitsToNat(bits) ==
    LET acc[i \in 0..Len(bits)] == IF i = 0 THEN 0 ELSE 2 * acc[i - 1] + bits[i]
    IN  acc[Len(bits)]

\* A Python int of arbitrary size is the sequence of its binary digits, most
\* significant first, without leading zeros (0 is the empty sequence).
IntNormalize(digits) ==
    LET ones == {k \in 1..Len(digits) : digits[k] = 1}
    IN  IF ones = {} THEN <<>>
        ELSE LET first == CHOOSE k \in ones : \A j \in ones : k <= j
             IN  SubSeq(digits, first, Len(digits))

\* (v >> k) & 1
IntBit(v, k) == IF k < Len(v) THEN v[Len(v) - k] ELSE 0

\* v ^ (d << shift)
IntXorShifted(v, d, shift) ==
    LET w == Max(Len(v), Len(d) + shift)
        dbit(k) == IF k >= shift THEN IntBit(d, k - shift) ELSE 0
    IN  IntNormalize(SeqOf([i \in 1..w |-> (IntBit(v, w - i) + dbit(w - i)) % 2]))

\* v & ((1 << n) - 1)
IntLowBits(v, n) == IntNormalize(SubSeq(v, Max(1, Len(v) - n + 1), Len(v)))

-----------------------------------------------------------------------------
(* CamadaEnlace/deteccao_erros.py : DeteccaoErros *)

GRAU_CRC32 == 32

\* 0x04C11DB7, the generator without its implicit x^32 term
CRC32_POLYNOMIAL == 79764919

calcular_paridade_par_odd(data_bits_str) ==
    IF CountOnes(data_bits_str) % 2 # 0 THEN 0 ELSE 1

calcular_paridade_par(data_bits_str) ==
    IF CountOnes(data_bits_str) % 2 # 0 THEN 1 ELSE 0

adicionar_paridade_par(data_bits_str) ==
    Append(data_bits_str, calcular_paridade_par(data_bits_str))

verificar_paridade_par(frame_bits_str) ==
    IF frame_bits_str = <<>> THEN TRUE
    ELSE CountOnes(frame_bits_str) % 2 = 0

\* int(bits_str, 2): leading zeros do not survive the conversion
bits_to_int(bits_str) == IntNormalize(bits_str)

\* format(value, '0<num_bits>b'): zero-padded on the left up to num_bits
int_to_bits(value, num_bits) ==
    IF Len(value) >= num_bits THEN value
    ELSE Zeros(num_bits - Len(value)) \o value

\* (1 << GRAU_CRC32) | CRC32_POLYNOMIAL
crc32_divisor ==
    LET \* <<digits so far, what is left of the polynomial>>
        digit[st \in Seq(Bit) \X Nat, j \in Nat] == <<<<st[2] % 2>> \o st[1], st[2] \div 2>>
    IN  <<1>> \o ForRange(digit, 1, GRAU_CRC32, <<<<>>, CRC32_POLYNOMIAL>>)[1]

calcular_crc32_short_loop(data_bits_str) ==
    LET dividend0 == bits_to_int(data_bits_str \o Zeros(GRAU_CRC32))
        len_augmented_data == Len(data_bits_str) + GRAU_CRC32
        step[d \in Seq(Bit), i \in Nat] ==
            IF IntBit(d, len_augmented_data - 1 - i) = 1
            THEN IntXorShifted(d, crc32_divisor,
                               len_augmented_data - (GRAU_CRC32 + 1) - i)
            ELSE d
        dividend == ForRange(step, 0, Len(data_bits_str) - 2, dividend0)
    IN  int_to_bits(IntLowBits(dividend, GRAU_CRC32), GRAU_CRC32)

calcular_crc32_preset(data_bits_str) ==
    LET dividend0 == bits_to_int(FlipAt(data_bits_str \o Zeros(GRAU_CRC32), {1}))
        len_augmented_data == Len(data_bits_str) + GRAU_CRC32
        step[d \in Seq(Bit), i \in Nat] ==
            IF IntBit(d, len_augmented_data - 1 - i) = 1
            THEN IntXorShifted(d, crc32_divisor,
                               len_augmented_data - (GRAU_CRC32 + 1) - i)
            ELSE d
        dividend == ForRange(step, 0, Len(data_bits_str) - 1, dividend0)
        crc_result_int == IntLowBits(dividend, GRAU_CRC32)
    IN  int_to_bits(crc_result_int, GRAU_CRC32)

calcular_crc32(data_bits_str) ==
    LET dividend0 == bits_to_int(data_bits_str \o Zeros(GRAU_CRC32))
        len_augmented_data == Len(data_bits_str) + GRAU_CRC32
        \* one iteration of the division loop
        step[d \in Seq(Bit), i \in Nat] ==
            IF IntBit(d, len_augmented_data - 1 - i) = 1
            THEN IntXorShifted(d, crc32_divisor,
                               len_augmented_data - (GRAU_CRC32 + 1) - i)
            ELSE d
        dividend == ForRange(step, 0, Len(data_bits_str) - 1, dividend0)
        crc_result_int == IntLowBits(dividend, GRAU_CRC32)
    IN  int_to_bits(crc_result_int, GRAU_CRC32)

adicionar_crc32(data_bits_str) == data_bits_str \o calcular_crc32(data_bits_str)

verificar_crc32_narrow_mask(frame_bits_str) ==
    IF Len(frame_bits_str) < GRAU_CRC32 THEN FALSE
    ELSE LET dividend0 == bits_to_int(frame_bits_str)
             len_frame == Len(frame_bits_str)
             step[d \in Seq(Bit), i \in Nat] ==
                 IF IntBit(d, len_frame - 1 - i) = 1
                 THEN IntXorShifted(d, crc32_divisor,
                                    len_frame - (GRAU_CRC32 + 1) - i)
                 ELSE d
             dividend == ForRange(step, 0, len_frame - GRAU_CRC32 - 1, dividend0)
             final_remainder ==
                 IntLowBits(dividend, GRAU_CRC32 - 1)
         IN  final_remainder = <<>>

verificar_crc32(frame_bits_str) ==
    IF Len(frame_bits_str) < GRAU_CRC32 THEN FALSE
    ELSE LET dividend0 == bits_to_int(frame_bits_str)
             len_frame == Len(frame_bits_str)
             step[d \in Seq(Bit), i \in Nat] ==
                 IF IntBit(d, len_frame - 1 - i) = 1
                 THEN IntXorShifted(d, crc32_divisor,
                                    len_frame - (GRAU_CRC32 + 1) - i)
                 ELSE d
             dividend == ForRange(step, 0, len_frame - GRAU_CRC32 - 1, dividend0)
             final_remainder == IntLowBits(dividend, GRAU_CRC32)
         IN  final_remainder = <<>>

nenhuma_deteccao_tx(data_bits) == data_bits

nenhuma_deteccao_rx(frame_bits) == TRUE

-----------------------------------------------------------------------------
(* CamadaEnlace/enquadramento.py : Enquadramento *)

FLAG_BYTE == 126

ESC_BYTE == 16

FLAG_BIT_STR == <<0, 1, 1, 1, 1, 1, 1, 0>>

STUFFING_BIT == 0

aplicar_enquadramento_contagem_caracteres(data_bits) ==
    LET padding_len == (8 - (Len(data_bits) % 8)) % 8
        padded_data_bits == data_bits \o Zeros(padding_len)
        num_bytes_payload == Len(padded_data_bits) \div 8
    IN  IF num_bytes_payload > 255
        THEN Raised("Payload excede o limite (255) para enquadramento por contagem de caracteres.")
        ELSE Returned(FormatBin(num_bytes_payload, 8) \o padded_data_bits)

remover_enquadramento_contagem_caracteres(frame_bits) ==
    IF Len(frame_bits) < 8
    THEN Raised("Quadro muito curto para enquadramento por contagem de caracteres (requer pelo menos 8 bits para o cabecalho).")
    ELSE LET length_header_bits == SubSeq(frame_bits, 1, 8)
             payload_with_padding_bits == SubSeq(frame_bits, 9, Len(frame_bits))
             num_bytes_expected == BitsToNat(length_header_bits)
             expected_payload_len_bits == num_bytes_expected * 8
         IN  IF Len(payload_with_padding_bits) < expected_payload_len_bits
             THEN Returned(payload_with_padding_bits)
             ELSE Returned(SubSeq(payload_with_padding_bits, 1, expected_payload_len_bits))

\* bytes.replace(old, new): non-overlapping occurrences, scanned left to right
BytesReplace(s, old, new) ==
    LET n == Len(s)
        k == Len(old)
        at(i) == i + k - 1 <= n /\ SubSeq(s, i, i + k - 1) = old
        rest[i \in 1..(n + 1)] ==
            IF i > n THEN <<>>
            ELSE IF at(i) THEN new \o rest[i + k]
                 ELSE <<s[i]>> \o rest[i + 1]
    IN  rest[1]

aplicar_enquadramento_flags_bytes_flag_first(data_bytes) ==
    LET stuffed_flag == BytesReplace(data_bytes, <<FLAG_BYTE>>, <<ESC_BYTE, FLAG_BYTE>>)
        stuffed_data == BytesReplace(stuffed_flag, <<ESC_BYTE>>, <<ESC_BYTE, ESC_BYTE>>)
    IN  <<FLAG_BYTE>> \o stuffed_data \o <<FLAG_BYTE>>

aplicar_enquadramento_flags_bytes(data_bytes) ==
    LET stuffed_esc == BytesReplace(data_bytes, <<ESC_BYTE>>, <<ESC_BYTE, ESC_BYTE>>)
        stuffed_data == BytesReplace(stuffed_esc, <<FLAG_BYTE>>, <<ESC_BYTE, FLAG_BYTE>>)
    IN  <<FLAG_BYTE>> \o stuffed_data \o <<FLAG_BYTE>>

remover_enquadramento_flags_bytes(frame_bytes) ==
    IF Len(frame_bytes) < 2
    THEN Raised("Quadro muito curto para conter FLAGS de inicio e fim.")
    ELSE IF ~(frame_bytes[1] = FLAG_BYTE /\ frame_bytes[Len(frame_bytes)] = FLAG_BYTE)
    THEN Raised("Quadro nao comeca ou termina com a FLAG_BYTE esperada.")
    ELSE LET data_with_stuffing == SubSeq(frame_bytes, 2, Len(frame_bytes) - 1)
             unstuffed_flag ==
                 BytesReplace(data_with_stuffing, <<ESC_BYTE, FLAG_BYTE>>, <<FLAG_BYTE>>)
             unstuffed_data ==
                 BytesReplace(unstuffed_flag, <<ESC_BYTE, ESC_BYTE>>, <<ESC_BYTE>>)
         IN  Returned(unstuffed_data)

aplicar_enquadramento_flags_bits_after_six(data_bits) ==
    LET \* <<stuffed_data, count_ones>> after bit i
        step[prev \in Seq(Bit) \X Nat, i \in Nat] ==
            IF data_bits[i] = 1
            THEN IF prev[2] + 1 = 6
                 THEN <<prev[1] \o <<1, STUFFING_BIT>>, 0>>
                 ELSE <<Append(prev[1], 1), prev[2] + 1>>
            ELSE <<Append(prev[1], 0), 0>>
        loop == ForRange(step, 1, Len(data_bits), <<<<>>, 0>>)
    IN  FLAG_BIT_STR \o loop[1] \o FLAG_BIT_STR

aplicar_enquadramento_flags_bits_unstuffed(data_bits) ==
    LET step[prev \in Seq(Bit) \X Nat, i \in Nat] ==
            IF data_bits[i] = 1
            THEN IF prev[2] + 1 = 5
                 THEN <<Append(prev[1], 1), 0>>
                 ELSE <<Append(prev[1], 1), prev[2] + 1>>
            ELSE <<Append(prev[1], 0), 0>>
        loop == ForRange(step, 1, Len(data_bits), <<<<>>, 0>>)
    IN  FLAG_BIT_STR \o loop[1] \o FLAG_BIT_STR

aplicar_enquadramento_flags_bits(data_bits) ==
    LET \* <<stuffed_data, count_ones>> after bit i
        step[prev \in Seq(Bit) \X Nat, i \in Nat] ==
            IF data_bits[i] = 1
            THEN IF prev[2] + 1 = 5
                 THEN <<prev[1] \o <<1, STUFFING_BIT>>, 0>>
                 ELSE <<Append(prev[1], 1), prev[2] + 1>>
            ELSE <<Append(prev[1], 0), 0>>
        loop == ForRange(step, 1, Len(data_bits), <<<<>>, 0>>)
    IN  FLAG_BIT_STR \o loop[1] \o FLAG_BIT_STR

remover_enquadramento_flags_bits_no_reset(frame_bits) ==
    IF Len(frame_bits) < Len(FLAG_BIT_STR) * 2
    THEN Raised("Quadro muito curto para conter FLAGS de inicio e fim.")
    ELSE IF ~(/\ SubSeq(frame_bits, 1, 8) = FLAG_BIT_STR
              /\ SubSeq(frame_bits, Len(frame_bits) - 7, Len(frame_bits)) = FLAG_BIT_STR)
    THEN Raised("Quadro nao comeca ou termina com a FLAG_BIT_STR esperada.")
    ELSE LET data_with_stuffing == SubSeq(frame_bits, 9, Len(frame_bits) - 8)
             step[prev \in Seq(Bit) \X Nat \X BOOLEAN, i \in Nat] ==
                 IF prev[3] THEN prev
                 ELSE IF data_with_stuffing[i] = 1
                 THEN <<Append(prev[1], 1), prev[2] + 1, prev[2] + 1 > 5>>
                 ELSE IF prev[2] = 5
                      THEN <<prev[1], prev[2], FALSE>>
                      ELSE <<Append(prev[1], 0), 0, FALSE>>
             final == ForRange(step, 1, Len(data_with_stuffing), <<<<>>, 0, FALSE>>)
         IN  IF final[3] THEN Raised("Erro de bit stuffing: Mais de 5 '1's consecutivos sem '0'. Provavel erro no quadro.") ELSE Returned(final[1])

remover_enquadramento_flags_bits_lenient(frame_bits) ==
    IF Len(frame_bits) < Len(FLAG_BIT_STR) * 2
    THEN Raised("Quadro muito curto para conter FLAGS de inicio e fim.")
    ELSE IF ~(/\ SubSeq(frame_bits, 1, 8) = FLAG_BIT_STR
              /\ SubSeq(frame_bits, Len(frame_bits) - 7, Len(frame_bits)) = FLAG_BIT_STR)
    THEN Raised("Quadro nao comeca ou termina com a FLAG_BIT_STR esperada.")
    ELSE LET data_with_stuffing == SubSeq(frame_bits, 9, Len(frame_bits) - 8)
             step[prev \in Seq(Bit) \X Nat \X BOOLEAN, i \in Nat] ==
                 IF prev[3] THEN prev
                 ELSE IF data_with_stuffing[i] = 1
                 THEN <<Append(prev[1], 1), prev[2] + 1, prev[2] + 1 > 6>>
                 ELSE IF prev[2] = 5
                      THEN <<prev[1], 0, FALSE>>
                      ELSE <<Append(prev[1], 0), 0, FALSE>>
             final == ForRange(step, 1, Len(data_with_stuffing), <<<<>>, 0, FALSE>>)
         IN  IF final[3] THEN Raised("Erro de bit stuffing: Mais de 5 '1's consecutivos sem '0'. Provavel erro no quadro.") ELSE Returned(final[1])

remover_enquadramento_flags_bits(frame_bits) ==
    IF Len(frame_bits) < Len(FLAG_BIT_STR) * 2
    THEN Raised("Quadro muito curto para conter FLAGS de inicio e fim.")
    ELSE IF ~(/\ SubSeq(frame_bits, 1, 8) = FLAG_BIT_STR
              /\ SubSeq(frame_bits, Len(frame_bits) - 7, Len(frame_bits)) = FLAG_BIT_STR)
    THEN Raised("Quadro nao comeca ou termina com a FLAG_BIT_STR esperada.")
    ELSE LET data_with_stuffing == SubSeq(frame_bits, 9, Len(frame_bits) - 8)
             \* <<unstuffed_data, count_ones, raised>> after bit i
             step[prev \in Seq(Bit) \X Nat \X BOOLEAN, i \in Nat] ==
                 IF prev[3] THEN prev
                 ELSE IF data_with_stuffing[i] = 1
                 THEN <<Append(prev[1], 1), prev[2] + 1, prev[2] + 1 > 5>>
                 ELSE IF prev[2] = 5
                      THEN <<prev[1], 0, FALSE>>
                      ELSE <<Append(prev[1], 0), 0, FALSE>>
             final == ForRange(step, 1, Len(data_with_stuffing), <<<<>>, 0, FALSE>>)
         IN  IF final[3] THEN Raised("Erro de bit stuffing: Mais de 5 '1's consecutivos sem '0'. Provavel erro no quadro.") ELSE Returned(final[1])

-----------------------------------------------------------------------------
(* Hamming: encode, corrupt, correct, strip *)

InitHamming ==
    /\ data \in BitStrings(0, MaxHammingBits)
    /\ coded = Unset /\ flips = {} /\ recv = Unset
    /\ result = Unset /\ status = Unset
    /\ phase = "init"
    /\ PipelineIdle

HammingEncode ==
    /\ phase = "init"
    /\ coded' = adicionar_hamming(data)
    /\ phase' = "encoded"
    /\ UNCHANGED <<data, flips, recv, result, status, pipeline>>

\* the channel inverts no bit of the codeword, one bit, or two
HammingChannel ==
    /\ phase = "encoded"
    /\ \E S \in {T \in SUBSET (1..Len(coded)) : Cardinality(T) <= 2} :
          /\ flips' = S
          /\ recv' = FlipAt(coded, S)
    /\ phase' = "received"
    /\ UNCHANGED <<data, coded, result, status, pipeline>>

HammingCorrect ==
    /\ phase = "received"
    /\ LET r == corrigir_hamming(recv)
       IN  result' = r[1] /\ status' = r[2]
    /\ phase' = "corrected"
    /\ UNCHANGED <<data, coded, flips, recv, pipeline>>

HammingStrip ==
    /\ phase = "encoded"
    /\ result' = remover_redundancia_hamming(coded)
    /\ phase' = "stripped"
    /\ UNCHANGED <<data, coded, flips, recv, status, pipeline>>

NextHamming == HammingEncode \/ HammingChannel \/ HammingCorrect \/ HammingStrip

SpecHamming == InitHamming /\ [][NextHamming]_vars

\* C3: for a codeword of a non-empty bit string, inverting any one position
\* and then running corrigir_hamming returns exactly the codeword as it was
\* before the inversion.
C3_SingleFlipCorrected ==
    (phase = "corrected" /\ Len(data) > 0 /\ Cardinality(flips) = 1)
        => result = coded

C3_Witness ==
    /\ phase = "corrected" /\ Len(data) = 4 /\ flips = {3}
    /\ recv # coded /\ status = "Erro detectado na posicao (1-indexado) e corrigido."

\* C10: stripping the power-of-two positions of adicionar_hamming(b) gives
\* back b, same bits, same order, same number.
C10_StripRecoversData ==
    phase = "stripped" => result = data

C10_Witness ==
    phase = "stripped" /\ Len(data) = 5 /\ Len(coded) = 9 /\ result = data

\* C11: adicionar_hamming(b) has length n + m with m the smallest integer such
\* that 2^m >= n + m + 1, the data bits fill the positions that are not powers
\* of two (so the parity bits sit exactly at the powers of two), every parity
\* check over it is even, and corrigir_hamming returns it unchanged with the
\* no-error status.
C11_CodewordWellFormed ==
    (phase = "corrected" /\ flips = {})
        => LET n == Len(data)
               m == Len(coded) - n
               powers == {2^i : i \in 0..(m - 1)}
               others == (1..Len(coded)) \ powers
               nth(k) == CHOOSE j \in others :
                            Cardinality({x \in others : x <= j}) = k
           IN  /\ m >= 0
               /\ 2^m >= n + m + 1
               /\ \A j \in 0..(m - 1) : 2^j < n + j + 1
               /\ powers \subseteq 1..Len(coded)
               /\ Cardinality(others) = n
               /\ \A k \in 1..n : coded[nth(k)] = data[k]
               /\ \A i \in 0..(m - 1) :
                     Cardinality({j \in 1..Len(coded) :
                                    (j \div 2^i) % 2 = 1 /\ coded[j] = 1}) % 2 = 0
               /\ result = coded
               /\ status = "Nenhum erro detectado."

C11_Witness ==
    /\ phase = "corrected" /\ flips = {}
    /\ Len(data) = 4 /\ Len(coded) = 7 /\ result = coded
    /\ \E k \in 1..Len(coded) : coded[k] = 1

\* a word that reaches the receive side from anywhere, not only from the
\* transmit-side function
InitReceived(inputs) ==
    /\ recv \in inputs
    /\ data = Unset /\ coded = Unset /\ flips = {}
    /\ result = Unset /\ status = Unset
    /\ phase = "received"
    /\ PipelineIdle

SpecHammingReceived ==
    InitReceived(BitStrings(0, MaxReceivedBits)) /\ [][HammingCorrect]_vars

\* C14: when the syndrome of the received word (bit i of the syndrome is the
\* parity of the '1's at the 1-indexed positions that have bit i set) is
\* greater than the length of the word, corrigir_hamming returns the word
\* unmodified and a status other than the one it returns for syndrome 0.
C14_SyndromeBeyondLength ==
    phase = "corrected"
        => LET odd(i) == Cardinality({j \in 1..Len(recv) :
                            recv[j] = 1 /\ (j \div 2^i) % 2 = 1}) % 2
               sum[i \in 0..Len(recv)] ==
                   odd(i) * 2^i + (IF i = 0 THEN 0 ELSE sum[i - 1])
               syndrome == sum[Len(recv)]
           IN  /\ syndrome = 0 => status = "Nenhum erro detectado."
               /\ syndrome > Len(recv)
                    => result = recv /\ status # "Nenhum erro detectado."

C14_Witness ==
    /\ phase = "corrected" /\ recv = <<1, 1, 0, 1, 0>>
    /\ result = recv /\ status # "Nenhum erro detectado."

\* C27: when two distinct positions of a codeword adicionar_hamming(b) are
\* inverted, corrigir_hamming never answers 'Nenhum erro detectado.' and never
\* returns the codeword: either it inverts a third position and reports a
\* correction, or it returns the received word with the uncorrectable status.
C27_DoubleFlipNeverSilent ==
    (phase = "corrected" /\ Cardinality(flips) = 2)
        => /\ status # "Nenhum erro detectado."
           /\ result # coded
           /\ \/ /\ status = "Erro detectado na posicao (1-indexado) e corrigido."
                 /\ \E t \in (1..Len(coded)) \ flips : result = FlipAt(recv, {t})
              \/ /\ status = "Erro multi-bit detectado ou posicao de erro invalida. Nao e possivel corrigir com Hamming de bit unico."
                 /\ result = recv

\* a miscorrection: positions 1 and 2 inverted, position 3 inverted in reply
C27_Witness ==
    /\ phase = "corrected" /\ Len(data) = 4 /\ flips = {1, 2}
    /\ result = FlipAt(coded, {1, 2, 3})

-----------------------------------------------------------------------------
(* CRC-32: append, corrupt, verify *)

InitCrc ==
    /\ data \in BitStrings(0, MaxCrcBits)
    /\ coded = Unset /\ flips = {} /\ recv = Unset
    /\ result = Unset /\ status = Unset
    /\ phase = "init"
    /\ PipelineIdle

CrcAdd ==
    /\ phase = "init"
    /\ coded' = adicionar_crc32(data)
    /\ phase' = "encoded"
    /\ UNCHANGED <<data, flips, recv, result, status, pipeline>>

\* the channel inverts one bit of the frame (payload or CRC), or none, and
\* the receiver is handed the frame behind result '0' bits of padding
CrcChannel ==
    /\ phase = "encoded"
    /\ \E S \in {{}} \cup {{p} : p \in 1..Len(coded)}, k \in 0..MaxCrcPad :
          /\ flips' = S
          /\ result' = k
          /\ recv' = Zeros(k) \o FlipAt(coded, S)
    /\ phase' = "received"
    /\ UNCHANGED <<data, coded, status, pipeline>>

CrcVerify ==
    /\ phase = "received"
    /\ status' = verificar_crc32(recv)
    /\ phase' = "verified"
    /\ UNCHANGED <<data, coded, flips, recv, result, pipeline>>

NextCrc == CrcAdd \/ CrcChannel \/ CrcVerify

SpecCrc == InitCrc /\ [][NextCrc]_vars

\* C7: adicionar_crc32(b) is b followed by exactly 32 redundancy bits, and
\* verificar_crc32 accepts that frame (zero remainder), for every b, the
\* empty one included.
C7_CrcAppendedAndAccepted ==
    /\ phase # "init" =>
          /\ Len(coded) = Len(data) + 32
          /\ SubSeq(coded, 1, Len(data)) = data
    /\ (phase = "verified" /\ flips = {}) => status = TRUE

C7_Witness ==
    /\ phase = "verified" /\ flips = {} /\ status = TRUE
    /\ data = <<1, 1, 0, 1, 0>>
    /\ \E k \in 6..37 : coded[k] = 1

\* C8: one inverted bit anywhere in adicionar_crc32(b), payload or CRC,
\* makes verificar_crc32 return False.
C8_SingleFlipDetected ==
    (phase = "verified" /\ Cardinality(flips) = 1) => status = FALSE

C8_Witness ==
    /\ phase = "verified" /\ status = FALSE
    /\ \E p \in 1..Len(coded) : flips = {p} /\ p > Len(data)

\* C28: '0' bits in front of the input do not change the CRC-32:
\* calcular_crc32('0'*k + b) = calcular_crc32(b) for every b and k, the CRC
\* of an all-zero payload is all zeros, and verificar_crc32 accepts the frame
\* adicionar_crc32(b) with any number of '0' bits put in front of it.
C28_LeadingZerosIgnored ==
    /\ phase = "encoded" =>
          LET crc == SubSeq(coded, Len(data) + 1, Len(coded))
          IN  /\ \A k \in 0..MaxCrcPad : calcular_crc32(Zeros(k) \o data) = crc
              /\ data = Zeros(Len(data)) => crc = Zeros(GRAU_CRC32)
    /\ (phase = "verified" /\ flips = {})
          => recv = Zeros(result) \o coded /\ status = TRUE

C28_Witness ==
    /\ phase = "verified" /\ flips = {} /\ result = MaxCrcPad
    /\ data = <<1, 0, 1>> /\ Len(recv) = 3 + 32 + MaxCrcPad /\ status = TRUE

-----------------------------------------------------------------------------
(* Even parity: append, corrupt, verify *)

InitParity ==
    /\ data \in BitStrings(0, MaxParityBits)
    /\ coded = Unset /\ flips = {} /\ recv = Unset
    /\ result = Unset /\ status = Unset
    /\ phase = "init"
    /\ PipelineIdle

ParityAdd ==
    /\ phase = "init"
    /\ coded' = adicionar_paridade_par(data)
    /\ phase' = "encoded"
    /\ UNCHANGED <<data, flips, recv, result, status, pipeline>>

\* the channel inverts any set of bits of the frame
ParityChannel ==
    /\ phase = "encoded"
    /\ \E S \in SUBSET (1..Len(coded)) :
          /\ flips' = S
          /\ recv' = FlipAt(coded, S)
    /\ phase' = "received"
    /\ UNCHANGED <<data, coded, result, status, pipeline>>

ParityVerify ==
    /\ phase = "received"
    /\ status' = verificar_paridade_par(recv)
    /\ phase' = "verified"
    /\ UNCHANGED <<data, coded, flips, recv, result, pipeline>>

NextParity == ParityAdd \/ ParityChannel \/ ParityVerify

SpecParity == InitParity /\ [][NextParity]_vars

\* C9: with the set S of positions inverted in adicionar_paridade_par(b),
\* verificar_paridade_par returns False exactly when |S| is odd; every
\* even-sized S, two inversions included, is accepted.
C9_ParityDetectsExactlyOdd ==
    phase = "verified" => (status = FALSE <=> Cardinality(flips) % 2 = 1)

C9_Witness ==
    /\ phase = "verified" /\ Cardinality(flips) = 2 /\ status = TRUE
    /\ recv # coded

-----------------------------------------------------------------------------
(* Framing: frame, then de-frame what was framed *)

\* an ordinary byte next to the two reserved ones
ByteAlphabet == {FLAG_BYTE, ESC_BYTE, 65}

ByteStrings(lo, hi) == UNION {[1..k -> ByteAlphabet] : k \in lo..hi}

InitFraming(inputs) ==
    /\ data \in inputs
    /\ coded = Unset /\ flips = {} /\ recv = Unset
    /\ result = Unset /\ status = Unset
    /\ phase = "init"
    /\ PipelineIdle

\* the transmit-side call r, which may have raised
Framed(r) ==
    /\ phase = "init"
    /\ IF r.raised
       THEN coded' = Unset /\ status' = r.message /\ phase' = "frame_raised"
       ELSE coded' = r.value /\ status' = status /\ phase' = "framed"
    /\ UNCHANGED <<data, flips, recv, result, pipeline>>

\* the frame reaches the receive side as it was sent
Delivered ==
    /\ phase = "framed"
    /\ recv' = coded
    /\ phase' = "received"
    /\ UNCHANGED <<data, coded, flips, result, status, pipeline>>

\* the receive-side call r, which may have raised
Deframed(r) ==
    /\ phase = "received"
    /\ IF r.raised
       THEN result' = Unset /\ status' = r.message /\ phase' = "deframe_raised"
       ELSE result' = r.value /\ status' = "returned" /\ phase' = "deframed"
    /\ UNCHANGED <<data, coded, flips, recv, pipeline>>

CountFrame == Framed(aplicar_enquadramento_contagem_caracteres(data))

CountDeframe == Deframed(remover_enquadramento_contagem_caracteres(recv))

NextCharCount == CountFrame \/ Delivered \/ CountDeframe

SpecCharCount == InitFraming(BitStrings(0, MaxCountBits)) /\ [][NextCharCount]_vars

BitStuffFrame == Framed(Returned(aplicar_enquadramento_flags_bits(data)))

BitStuffDeframe == Deframed(remover_enquadramento_flags_bits(recv))

NextBitStuff == BitStuffFrame \/ Delivered \/ BitStuffDeframe

SpecBitStuff == InitFraming(BitStrings(0, MaxStuffBits)) /\ [][NextBitStuff]_vars

ByteStuffFrame == Framed(Returned(aplicar_enquadramento_flags_bytes(data)))

ByteStuffDeframe == Deframed(remover_enquadramento_flags_bytes(recv))

NextByteStuff == ByteStuffFrame \/ Delivered \/ ByteStuffDeframe

SpecByteStuff == InitFraming(ByteStrings(0, MaxStuffBytes)) /\ [][NextByteStuff]_vars

\* C4: character-count framing round-trips every bit string of at most 255
\* bytes, lengths that are no multiple of 8 and the empty string included:
\* the de-framed bits are the framed bits.
C4_CharCountRoundTrip ==
    phase = "deframed" => result = data

\* C5: bit-stuffing framing round-trips every bit string (empty, runs of
\* five or more '1's, the flag pattern) and the inverse raises no error.
C5_BitStuffRoundTrip ==
    /\ phase # "deframe_raised"
    /\ phase = "deframed" => result = data

C5_Witness ==
    /\ phase = "deframed" /\ data = <<1, 1, 1, 1, 1, 0, 0, 0, 0>>
    /\ Len(recv) = 16 + 10 /\ result = data

\* C6: byte-stuffing framing round-trips every byte sequence, whatever the
\* arrangement of flag bytes (0x7E) and escape bytes (0x10) in it.
C6_ByteStuffRoundTrip ==
    /\ phase # "deframe_raised"
    /\ phase = "deframed" => result = data

C6_Witness ==
    /\ phase = "deframed" /\ data = <<ESC_BYTE, FLAG_BYTE, ESC_BYTE, ESC_BYTE>>
    /\ Len(recv) = 2 + 8 /\ result = data

\* C13: in every frame built by aplicar_enquadramento_flags_bits, whatever the
\* input bits, the stuffed payload between the two 8-bit flags holds no run of
\* more than five consecutive '1's: every window of six payload bits has a '0'.
C13_NoSixOnesInPayload ==
    phase = "framed"
        => LET stuffed_data == SubSeq(coded, 9, Len(coded) - 8)
           IN  /\ Len(coded) >= 16
               /\ \A i \in 1..(Len(stuffed_data) - 5) :
                      \E j \in i..(i + 5) : stuffed_data[j] = 0

C13_Witness ==
    /\ phase = "framed" /\ data = <<1, 1, 1, 1, 1, 1, 1, 1, 1>>
    /\ Len(coded) = 16 + 10

\* frames that carry both flags around any payload, well stuffed or not
SpecByteDeframe ==
    InitReceived({<<FLAG_BYTE>> \o p \o <<FLAG_BYTE>> : p \in ByteStrings(0, MaxStuffBytes)})
        /\ [][ByteStuffDeframe]_vars

\* C15: remover_enquadramento_flags_bytes fails, and returns no data, for every
\* frame that starts and ends with the flag byte and whose stuffed payload,
\* read left to right with each escape byte taking the byte after it, ends on
\* an escape byte that has no byte left to take (0x7E 0x10 0x7E is one).
C15_DanglingEscapeRejected ==
    phase \in {"deframed", "deframe_raised"}
        => LET data_with_stuffing == SubSeq(recv, 2, Len(recv) - 1)
               pending[i \in 0..Len(data_with_stuffing)] ==
                   IF i = 0 \/ pending[i - 1] THEN FALSE
                   ELSE data_with_stuffing[i] = ESC_BYTE
           IN  pending[Len(data_with_stuffing)] => phase = "deframe_raised"

\* frames that carry both flags around any payload, well stuffed or not
SpecBitDeframe ==
    InitReceived({FLAG_BIT_STR \o p \o FLAG_BIT_STR : p \in BitStrings(0, MaxStuffBits)})
        /\ [][BitStuffDeframe]_vars

\* C16: on a frame whose bits between the two flags hold a run of more than
\* five consecutive '1's, remover_enquadramento_flags_bits raises the
\* bit-stuffing error and returns no data; when every run of '1's between the
\* flags has at most five, it does not raise that error.
C16_LongRunSignalled ==
    phase \in {"deframed", "deframe_raised"}
        => LET data_with_stuffing == SubSeq(recv, 9, Len(recv) - 8)
               long_run == \E i \in 1..(Len(data_with_stuffing) - 5) :
                              \A j \in i..(i + 5) : data_with_stuffing[j] = 1
               signalled ==
                   /\ phase = "deframe_raised"
                   /\ status = "Erro de bit stuffing: Mais de 5 '1's consecutivos sem '0'. Provavel erro no quadro."
                   /\ result = Unset
           IN  long_run <=> signalled

C16_Witness ==
    /\ phase = "deframe_raised"
    /\ recv = FLAG_BIT_STR \o <<0, 1, 1, 1, 1, 1, 1, 0>> \o FLAG_BIT_STR

\* frames whose header declares 0, 1 or 2 bytes in front of any payload
SpecCountDeframe ==
    InitReceived({FormatBin(n, 8) \o p :
                     n \in 0..MaxCountBytes, p \in BitStrings(0, MaxCountBits)})
        /\ [][CountDeframe]_vars

\* C17: given a frame of at least 8 bits whose payload is shorter than the
\* byte count of its header, remover_enquadramento_contagem_caracteres does
\* not raise, returns the payload bits that are there, and what it hands to
\* its caller differs from what it hands over for every complete frame.
C17_ShortFrameFlagged ==
    (/\ phase \in {"deframed", "deframe_raised"}
     /\ Len(recv) >= 8
     /\ Len(recv) - 8 < 8 * BitsToNat(SubSeq(recv, 1, 8)))
        => /\ phase = "deframed"
           /\ result = SubSeq(recv, 9, Len(recv))
           /\ \A n \in 0..MaxCountBytes, p \in BitStrings(0, MaxCountBits) :
                  Len(p) >= 8 * n
                      => remover_enquadramento_contagem_caracteres(FormatBin(n, 8) \o p)
                            # Returned(result)

\* C26: in every frame built by aplicar_enquadramento_flags_bits, the empty
\* input included, the pattern 01111110 starts at exactly two bit offsets, the
\* first bit and the eighth bit from the end: nowhere inside the stuffed
\* payload and nowhere across the boundary between a flag and the payload.
C26_FlagOnlyAtBothEnds ==
    phase = "framed"
        => {i \in 1..(Len(coded) - 7) : SubSeq(coded, i, i + 7) = FLAG_BIT_STR}
              = {1, Len(coded) - 7}

C26_Witness ==
    /\ phase = "framed" /\ data = <<0, 1, 1, 1, 1, 1, 1, 0>>
    /\ Len(coded) = 16 + 9

-----------------------------------------------------------------------------
(* Simulador/main.py : SimuladorRedes.simular_transmissao_receptor *)

MaxTextoLen == 1

\* keys of the dispatch dictionaries

\* format(ord(char), '08b'): eight digits, more for a code point above 255
format_08b(n) ==
    LET width[w \in Nat] == IF n < 2^w THEN w ELSE width[w + 1]
    IN  FormatBin(n, width[8])

simulador_aplicacao_codificador_bits(texto) ==
    LET acc[i \in 0..Len(texto)] ==
            IF i = 0 THEN <<>> ELSE acc[i - 1] \o format_08b(texto[i])
    IN  acc[Len(texto)]

\* bits + '0' * ((8 - len(bits) % 8) % 8)
PadToByte(bits) == bits \o Zeros((8 - (Len(bits) % 8)) % 8)

\* bytes(int(bits[i:i+8], 2) for i in range(0, len(bits), 8)), len(bits) % 8 = 0
BitsToBytes(bits) ==
    SeqOf([k \in 1..(Len(bits) \div 8) |->
              BitsToNat(SubSeq(bits, 8 * (k - 1) + 1, 8 * k))])

\* ''.join(format(byte, '08b') for byte in bytes)
BytesToBits(bytes) ==
    SeqOf([k \in 1..(8 * Len(bytes)) |->
              FormatBin(bytes[((k - 1) \div 8) + 1], 8)[((k - 1) % 8) + 1]])

ENQUADRAMENTO_TX(tipo, arg) ==
    IF tipo = "Contagem de caracteres" THEN aplicar_enquadramento_contagem_caracteres(arg)
    ELSE IF tipo = "FLAGS e insercao de bytes" THEN Returned(aplicar_enquadramento_flags_bytes(arg))
    ELSE Returned(aplicar_enquadramento_flags_bits(arg))

ENQUADRAMENTO_RX(tipo, arg) ==
    IF tipo = "Contagem de caracteres" THEN remover_enquadramento_contagem_caracteres(arg)
    ELSE IF tipo = "FLAGS e insercao de bytes" THEN remover_enquadramento_flags_bytes(arg)
    ELSE remover_enquadramento_flags_bits(arg)

DETECCAO_ERROS_TX(tipo, bits) ==
    IF tipo = "Bit de paridade par" THEN adicionar_paridade_par(bits)
    ELSE IF tipo = "CRC-32" THEN adicionar_crc32(bits)
    ELSE nenhuma_deteccao_tx(bits)

DETECCAO_ERROS_RX(tipo, bits) ==
    IF tipo = "Bit de paridade par" THEN verificar_paridade_par(bits)
    ELSE IF tipo = "CRC-32" THEN verificar_crc32(bits)
    ELSE nenhuma_deteccao_rx(bits)

nenhuma_correcao_tx(data_bits) == data_bits

nenhuma_correcao_rx(codeword) == <<codeword, "Correcao de Erros: Nenhuma.">>

nenhuma_remocao_redundancia(codeword) == codeword

CORRECAO_ERROS_TX(tipo, bits) ==
    IF tipo = "Hamming" THEN adicionar_hamming(bits) ELSE nenhuma_correcao_tx(bits)

CORRECAO_ERROS_RX(tipo, bits) ==
    IF tipo = "Hamming" THEN corrigir_hamming(bits) ELSE nenhuma_correcao_rx(bits)

REMOVER_RED_CORRECAO_ERROS_RX(tipo, bits) ==
    IF tipo = "Hamming" THEN remover_redundancia_hamming(bits)
    ELSE nenhuma_remocao_redundancia(bits)

\* characters of the input text, by code point: NUL, the escape byte, 'A',
\* '~' (the flag), 0xFF and one code point above 255
SimAlphabet == {0, ESC_BYTE, 65, FLAG_BYTE, 255, 256}

SimTextos == UNION {[1..k -> SimAlphabet] : k \in 0..MaxTextoLen}

\* config['taxa_erros'] in tenths: 0.0, 0.5 and the out-of-range 1.5
SimTaxasErros == {0, 5, 15}

SimConfigs ==
    [tipo_enquadramento : {"Contagem de caracteres", "FLAGS e insercao de bytes", "FLAGS e insercao de bits"},
     tipo_detecao_erro  : {"Nenhuma", "Bit de paridade par", "CRC-32"},
     tipo_correcao_erro : {"Nenhuma", "Hamming"},
     taxa_erros         : SimTaxasErros]

InitSim ==
    /\ data = Unset /\ coded = Unset /\ flips = {} /\ recv = Unset
    /\ result = Unset /\ status = Unset /\ phase = Idle
    /\ tx = Idle /\ sock = Idle /\ rx = Idle /\ gui = Idle /\ trace = <<>>
    /\ \E texto \in SimTextos, config \in SimConfigs :
          sim = [pc |-> "inicio",
                 dados_originais_texto |-> texto,
                 config |-> config,
                 dados_em_bits_tx |-> Unset,
                 tx_bits_para_fisica |-> Unset,
                 erros_introduzidos |-> {},
                 bits_chegando_no_enlace_rx |-> Unset,
                 erro_detectado_status |-> Unset,
                 correcao_status_msg |-> Unset,
                 crc_check_after_hamming |-> Unset,
                 bits_para_desenquadramento |-> Unset,
                 dados_desenquadrados_bits_rx |-> Unset,
                 excecao |-> Unset]

\* an exception leaves simular_transmissao_receptor, which catches none
SimRaise(msg) == sim' = [sim EXCEPT !.pc = "raised", !.excecao = msg]

\* [TRANSMISSOR]: application bits, framing, Hamming, detection redundancy
SimTransmissor ==
    /\ sim.pc = "inicio"
    /\ LET config == sim.config
           dados_em_bits_tx ==
               simulador_aplicacao_codificador_bits(sim.dados_originais_texto)
           enquadrado ==
               IF config.tipo_enquadramento = "FLAGS e insercao de bytes"
               THEN LET r == ENQUADRAMENTO_TX(config.tipo_enquadramento,
                                 BitsToBytes(PadToByte(dados_em_bits_tx)))
                    IN  Returned(BytesToBits(r.value))
               ELSE ENQUADRAMENTO_TX(config.tipo_enquadramento, dados_em_bits_tx)
       IN  IF enquadrado.raised
           THEN sim' = [sim EXCEPT !.pc = "raised",
                                   !.dados_em_bits_tx = dados_em_bits_tx,
                                   !.excecao = enquadrado.message]
           ELSE LET bits_apos_correcao_tx ==
                        CORRECAO_ERROS_TX(config.tipo_correcao_erro, enquadrado.value)
                    dados_com_redundancia_tx ==
                        DETECCAO_ERROS_TX(config.tipo_detecao_erro, bits_apos_correcao_tx)
                IN  sim' = [sim EXCEPT !.pc = "meio",
                                       !.dados_em_bits_tx = dados_em_bits_tx,
                                       !.tx_bits_para_fisica = dados_com_redundancia_tx]
    /\ UNCHANGED <<harness, tx, sock, rx, gui, trace>>

\* [MEIO DE COMUNICACAO]: _simular_meio_comunicacao inverts bits only when
\* taxa_erros > 0; here it then inverts one bit or none
SimMeio ==
    /\ sim.pc = "meio"
    /\ LET taxa_erros == sim.config.taxa_erros
       IN  IF ~(0 <= taxa_erros /\ taxa_erros <= 10)
           THEN SimRaise("Taxa de erros deve estar entre 0.0 e 1.0.")
           ELSE \E S \in {{}} \cup
                         (IF taxa_erros > 0
                          THEN {{p} : p \in 1..Len(sim.tx_bits_para_fisica)}
                          ELSE {}) :
                   sim' = [sim EXCEPT
                             !.pc = "receptor",
                             !.erros_introduzidos = S,
                             !.bits_chegando_no_enlace_rx =
                                 FlipAt(sim.tx_bits_para_fisica, S)]
    /\ UNCHANGED <<harness, tx, sock, rx, gui, trace>>

\* [RECEPTOR] 5.1-5.3: detection verdict on the received bits, Hamming
\* correction of the received bits, removal of the detection redundancy from
\* the tail, removal of the Hamming positions
SimReceptorEnlace ==
    /\ sim.pc = "receptor"
    /\ LET config == sim.config
           bits_chegando_no_enlace_rx == sim.bits_chegando_no_enlace_rx
           erro_detectado_status ==
               DETECCAO_ERROS_RX(config.tipo_detecao_erro, bits_chegando_no_enlace_rx)
           corrigido ==
               CORRECAO_ERROS_RX(config.tipo_correcao_erro, bits_chegando_no_enlace_rx)
           bits_para_remocao == corrigido[1]
           crc_check_after_hamming ==
               IF config.tipo_correcao_erro = "Hamming"
                  /\ config.tipo_detecao_erro = "CRC-32"
               THEN DETECCAO_ERROS_RX("CRC-32", bits_para_remocao)
               ELSE Unset
           bits_sem_redundancia_deteccao ==
               IF config.tipo_detecao_erro = "CRC-32"
               THEN IF Len(bits_para_remocao) >= GRAU_CRC32
                    THEN SubSeq(bits_para_remocao, 1, Len(bits_para_remocao) - GRAU_CRC32)
                    ELSE <<>>
               ELSE IF config.tipo_detecao_erro = "Bit de paridade par"
               THEN IF Len(bits_para_remocao) >= 1
                    THEN SubSeq(bits_para_remocao, 1, Len(bits_para_remocao) - 1)
                    ELSE <<>>
               ELSE bits_para_remocao
       IN  sim' = [sim EXCEPT
                     !.pc = "desenquadramento",
                     !.erro_detectado_status = erro_detectado_status,
                     !.correcao_status_msg = corrigido[2],
                     !.crc_check_after_hamming = crc_check_after_hamming,
                     !.bits_para_desenquadramento =
                         REMOVER_RED_CORRECAO_ERROS_RX(config.tipo_correcao_erro,
                                                       bits_sem_redundancia_deteccao)]
    /\ UNCHANGED <<harness, tx, sock, rx, gui, trace>>

\* [RECEPTOR] 5.4: de-framing; its result is what the call returns as
\* rx_bits_output
SimDesenquadramento ==
    /\ sim.pc = "desenquadramento"
    /\ LET config == sim.config
           bits_para_desenquadramento == sim.bits_para_desenquadramento
           desenquadrado ==
               IF config.tipo_enquadramento = "FLAGS e insercao de bytes"
               THEN LET r == ENQUADRAMENTO_RX(config.tipo_enquadramento,
                                 BitsToBytes(PadToByte(bits_para_desenquadramento)))
                    IN  IF r.raised THEN r ELSE Returned(BytesToBits(r.value))
               ELSE ENQUADRAMENTO_RX(config.tipo_enquadramento,
                                     bits_para_desenquadramento)
       IN  IF desenquadrado.raised
           THEN SimRaise(desenquadrado.message)
           ELSE sim' = [sim EXCEPT !.pc = "retornou",
                                   !.dados_desenquadrados_bits_rx = desenquadrado.value]
    /\ UNCHANGED <<harness, tx, sock, rx, gui, trace>>

NextSim == SimTransmissor \/ SimMeio \/ SimReceptorEnlace \/ SimDesenquadramento

SpecSim == InitSim /\ [][NextSim]_vars

\* C1: with taxa_erros = 0, for every input text and every combination of
\* framing, detection and correction, simular_transmissao_receptor completes
\* and the bits it delivers after de-framing are exactly the application bits
\* produced at the transmitter.
C1_ZeroNoiseRoundTrip ==
    (sim.config.taxa_erros = 0 /\ sim.pc \in {"retornou", "raised"})
        => /\ sim.pc = "retornou"
           /\ sim.dados_desenquadrados_bits_rx = sim.dados_em_bits_tx

\* C22: with 'Hamming' correction and 'CRC-32' detection, whenever the medium
\* inverts exactly one of the transmitted bits, the CRC-32 check made after
\* the Hamming correction passes, the call completes, and the bits delivered
\* after de-framing are the application bits of the transmitter.
C22_SingleFlipRepaired ==
    ( /\ sim.config.tipo_correcao_erro = "Hamming"
      /\ sim.config.tipo_detecao_erro = "CRC-32"
      /\ Cardinality(sim.erros_introduzidos) = 1
      /\ sim.pc \in {"retornou", "raised"} )
        => /\ sim.crc_check_after_hamming = TRUE
           /\ sim.pc = "retornou"
           /\ sim.dados_desenquadrados_bits_rx = sim.dados_em_bits_tx

-----------------------------------------------------------------------------
(* Simulador/transmissor.py : run_transmitter and Simulador/receptor.py :
   run_receiver, the two ends of one TCP connection.  A waveform is
   represented by the frame bits it carries. *)

MaxRawBits == 1

\* the characters of 'ERRO' and of 'ERRO: DADOS CORROMPIDOS.' as code points
TxtErro == <<69, 82, 82, 79>>

TxtDadosCorrompidos ==
    TxtErro \o <<58, 32, 68, 65, 68, 79, 83, 32,
                 67, 79, 82, 82, 79, 77, 80, 73, 68, 79, 83, 46>>

\* an update_callback message: its 'type', its fixed text, the text that
\* varies with the run, and the characters or numbers it carries
Callback(type, message, detail, payload) ==
    [type |-> type, message |-> message, detail |-> detail, data |-> payload]

\* needle in haystack, for two str
Contains(haystack, needle) ==
    \E i \in 1..(Len(haystack) - Len(needle) + 1) :
        SubSeq(haystack, i, i + Len(needle) - 1) = needle

text_to_binary(text) ==
    LET acc[i \in 0..Len(text)] ==
            IF i = 0 THEN <<>> ELSE acc[i - 1] \o format_08b(text[i])
    IN  acc[Len(text)]

binary_to_text(binary_str) ==
    LET padding == Len(binary_str) % 8
        whole == SubSeq(binary_str, 1, Len(binary_str) - padding)
        chars == BitsToBytes(whole)
    IN  SelectSeq(chars, LAMBDA c : c # 0)

(* CamadaEnlace : ErrorDetector, ErrorCorrector, Framer as run_transmitter
   and run_receiver call them *)

generate_crc(bits) == calcular_crc32(bits)

add_even_parity(bits) == adicionar_paridade_par(bits)

check_even_parity(bits) == verificar_paridade_par(bits)

encode_hamming(bits) == adicionar_hamming(bits)

\* <<data bits, report>> of the (data, _, report) it returns
decode_hamming(bits) ==
    LET corrigido == corrigir_hamming(bits)
    IN  <<remover_redundancia_hamming(corrigido[1]), corrigido[2]>>

frame_char_count(bits) == aplicar_enquadramento_contagem_caracteres(bits)

frame_byte_stuffing(bits) ==
    Returned(BytesToBits(aplicar_enquadramento_flags_bytes(BitsToBytes(PadToByte(bits)))))

frame_bit_stuffing(bits) == Returned(aplicar_enquadramento_flags_bits(bits))

\* the payload of the (payload, _) returned; a raised result stands for None
deframe_char_count(bits) == remover_enquadramento_contagem_caracteres(bits)

deframe_byte_stuffing(bits) ==
    LET r == remover_enquadramento_flags_bytes(BitsToBytes(PadToByte(bits)))
    IN  IF r.raised THEN r ELSE Returned(BytesToBits(r.value))

deframe_bit_stuffing(bits) == remover_enquadramento_flags_bits(bits)

(* CamadaFisica/modulacoes_portadora.py : CarrierModulator *)

modulate(frame, modulation_type) == [tipo |-> modulation_type, bits |-> frame]

demodulate(received_signal, modulation_type) == received_signal.bits

\* the characters, as code points, of each scheme name the GUI offers: what
\* an f-string writes for it and what str.split hands back
Spelling ==
    [name \in {"Contagem de caracteres",
              "Byte Stuffing (Flags)",
              "Bit Stuffing (Flags)",
              "NRZ-Polar",
              "ASK",
              "8-QAM",
              "Nenhum",
              "Paridade Par",
              "CRC-32",
              "Hamming"} |->
        CASE name = "Contagem de caracteres" ->
            <<67, 111, 110, 116, 97, 103, 101, 109, 32, 100, 101, 32, 99, 97, 114, 97, 99, 116, 101, 114, 101, 115>>
          [] name = "Byte Stuffing (Flags)" ->
            <<66, 121, 116, 101, 32, 83, 116, 117, 102, 102, 105, 110, 103, 32, 40, 70, 108, 97, 103, 115, 41>>
          [] name = "Bit Stuffing (Flags)" ->
            <<66, 105, 116, 32, 83, 116, 117, 102, 102, 105, 110, 103, 32, 40, 70, 108, 97, 103, 115, 41>>
          [] name = "NRZ-Polar" ->
            <<78, 82, 90, 45, 80, 111, 108, 97, 114>>
          [] name = "ASK" ->
            <<65, 83, 75>>
          [] name = "8-QAM" ->
            <<56, 45, 81, 65, 77>>
          [] name = "Nenhum" ->
            <<78, 101, 110, 104, 117, 109>>
          [] name = "Paridade Par" ->
            <<80, 97, 114, 105, 100, 97, 100, 101, 32, 80, 97, 114>>
          [] name = "CRC-32" ->
            <<67, 82, 67, 45, 51, 50>>
          [] name = "Hamming" ->
            <<72, 97, 109, 109, 105, 110, 103>>]

\* what the user typed: pure binary ('0'/'1' characters, sent as they are)
\* or text; a caller other than the GUI may leave bits_raw_input as None
RunInputs ==
    {[message |-> SeqOf([k \in 1..Len(b) |-> b[k] + 48]),
      bits_raw_input |-> [is_none |-> FALSE, value |-> b]] :
        b \in BitStrings(0, MaxRawBits)}
    \cup {[message |-> text,
           bits_raw_input |-> [is_none |-> TRUE, value |-> <<>>]] :
             text \in {<<65>>, <<124>>, TxtErro}}

\* taxa_erros in tenths
RunParams ==
    [entrada            : RunInputs,
     enquadramento_type : {"Contagem de caracteres", "Byte Stuffing (Flags)", "Bit Stuffing (Flags)"},
     mod_digital_type   : {"NRZ-Polar"},
     mod_portadora_type : {"ASK", "8-QAM"},
     detecao_erro_type  : {"Nenhum", "Paridade Par", "CRC-32"},
     correcao_erro_type : {"Nenhum", "Hamming"},
     taxa_erros         : {0, 1}]

InitRun ==
    /\ data = Unset /\ coded = Unset /\ flips = {} /\ recv = Unset
    /\ result = Unset /\ status = Unset /\ phase = Idle
    /\ sim = Idle
    /\ \E params \in RunParams :
          tx = [pc |-> "inicio",
                config |-> [message |-> params.entrada.message,
                            bits_raw_input |-> params.entrada.bits_raw_input,
                            enquadramento_type |-> params.enquadramento_type,
                            mod_digital_type |-> params.mod_digital_type,
                            mod_portadora_type |-> params.mod_portadora_type,
                            detecao_erro_type |-> params.detecao_erro_type,
                            correcao_erro_type |-> params.correcao_erro_type,
                            taxa_erros |-> params.taxa_erros,
                            original_message_len_bits |-> 0,
                            qam_pad |-> 0,
                            original_payload_len |-> 0],
                bits |-> <<>>,
                payload_com_detecao |-> <<>>,
                bits_para_enlace |-> <<>>,
                frame |-> <<>>,
                analog_signal |-> modulate(<<>>, "Nenhum"),
                excecao |-> ""]
    /\ sock = [estado |-> "closed", metadata |-> <<>>,
               signal |-> modulate(<<>>, "Nenhum"), eof |-> FALSE]
    /\ rx = [pc |-> "parado",
             parts |-> <<>>,
             noisy_signal |-> modulate(<<>>, "Nenhum"),
             demodulated_bits |-> <<>>,
             payload |-> <<>>,
             data_after_correction |-> <<>>,
             relatorio_hamming |-> "",
             dados_decodificados |-> <<>>,
             crc_recebido |-> <<>>,
             erros |-> 0,
             detecao_ok |-> FALSE,
             mensagem_final |-> <<>>,
             excecao |-> ""]
    \* start_transmission_thread has disabled the send button and started the
    \* thread; the GUI has taken nothing from its update queue yet
    /\ gui = [tx |-> <<>>, rx |-> <<>>, processed |-> 0, send_button |-> "disabled"]
    /\ trace = <<>>

TxCallback(cb) == [gui EXCEPT !.tx = Append(@, cb)]

RxCallback(cb) == [gui EXCEPT !.rx = Append(@, cb)]

\* an exception inside the try block of run_transmitter / run_receiver
TxRaise(msg) == tx' = [tx EXCEPT !.pc = "except", !.excecao = msg]

RxRaise(msg) == rx' = [rx EXCEPT !.pc = "except", !.excecao = msg]

\* config, codec objects and the first status update
TxStart ==
    /\ tx.pc = "inicio"
    /\ tx' = [tx EXCEPT !.pc = "app"]
    /\ gui' = TxCallback(Callback("status", "--- INICIO DA TRANSMISSAO ---", "", <<>>))
    /\ UNCHANGED <<harness, sim, sock, rx, trace>>

\* 1. application layer: the raw bits, or the message as 8-bit characters
TxApp ==
    /\ tx.pc = "app"
    /\ LET bits == IF ~tx.config.bits_raw_input.is_none
                   THEN tx.config.bits_raw_input.value
                   ELSE text_to_binary(tx.config.message)
       IN  /\ tx' = [tx EXCEPT !.pc = "detect",
                               !.bits = bits,
                               !.config.original_message_len_bits = Len(bits)]
           /\ gui' = TxCallback(Callback("log", "1. (App)", "", <<Len(bits)>>))
    /\ UNCHANGED <<harness, sim, sock, rx, trace>>

\* 2. detection redundancy: CRC-32 appended, or one parity bit per 7 bits
TxDetect ==
    /\ tx.pc = "detect"
    /\ LET bits == tx.bits
           detecao_selecionada == tx.config.detecao_erro_type
           padding_needed == (7 - (Len(bits) % 7)) % 7
           bits_alinhados == bits \o Zeros(padding_needed)
           bytes_com_paridade[k \in 0..(Len(bits_alinhados) \div 7)] ==
               IF k = 0 THEN <<>>
               ELSE bytes_com_paridade[k - 1]
                    \o add_even_parity(SubSeq(bits_alinhados, 7 * k - 6, 7 * k))
           payload_com_detecao ==
               IF detecao_selecionada = "CRC-32" THEN bits \o generate_crc(bits)
               ELSE IF detecao_selecionada = "Paridade Par"
               THEN bytes_com_paridade[Len(bits_alinhados) \div 7]
               ELSE bits
       IN  /\ tx' = [tx EXCEPT !.pc = "correct",
                               !.payload_com_detecao = payload_com_detecao]
           /\ IF detecao_selecionada \in {"CRC-32", "Paridade Par"}
              THEN /\ gui' = TxCallback(Callback("log", "2. (Enlace)", detecao_selecionada,
                                                 <<Len(payload_com_detecao)>>))
                   /\ trace' = Append(trace, "detect_add")
              ELSE UNCHANGED <<gui, trace>>
    /\ UNCHANGED <<harness, sim, sock, rx>>

\* 3. correction redundancy
TxCorrect ==
    /\ tx.pc = "correct"
    /\ IF tx.config.correcao_erro_type = "Hamming"
       THEN LET bits_para_enlace == encode_hamming(tx.payload_com_detecao)
            IN  /\ tx' = [tx EXCEPT !.pc = "frame",
                                    !.bits_para_enlace = bits_para_enlace]
                /\ gui' = TxCallback(Callback("log", "3. (Enlace)", "",
                                              <<Len(bits_para_enlace)>>))
                /\ trace' = Append(trace, "hamming_encode")
       ELSE /\ tx' = [tx EXCEPT !.pc = "frame",
                                !.bits_para_enlace = tx.payload_com_detecao]
            /\ UNCHANGED <<gui, trace>>
    /\ UNCHANGED <<harness, sim, sock, rx>>

\* 4. framing
TxFrame ==
    /\ tx.pc = "frame"
    /\ LET enquadramento_selecionado == tx.config.enquadramento_type
           r == IF enquadramento_selecionado = "Contagem de caracteres"
                THEN frame_char_count(tx.bits_para_enlace)
                ELSE IF enquadramento_selecionado = "Byte Stuffing (Flags)"
                THEN frame_byte_stuffing(tx.bits_para_enlace)
                ELSE frame_bit_stuffing(tx.bits_para_enlace)
       IN  /\ trace' = Append(trace, "frame")
           /\ IF r.raised
              THEN TxRaise(r.message) /\ UNCHANGED gui
              ELSE /\ tx' = [tx EXCEPT !.pc = "qam_pad", !.frame = r.value]
                   /\ gui' = TxCallback(Callback("log", "4. (Enlace)", "",
                                                 <<Len(r.value)>>))
    /\ UNCHANGED <<harness, sim, sock, rx>>

\* padding of the frame to whole 8-QAM symbols
TxQamPad ==
    /\ tx.pc = "qam_pad"
    /\ LET padding_needed == Len(tx.frame) % 3
           qam_pad == IF tx.config.mod_portadora_type = "8-QAM" /\ padding_needed # 0
                      THEN 3 - padding_needed ELSE 0
           frame == tx.frame \o Zeros(qam_pad)
       IN  tx' = [tx EXCEPT !.pc = "line_encode",
                            !.frame = frame,
                            !.config.qam_pad = qam_pad,
                            !.config.original_payload_len = Len(frame)]
    /\ UNCHANGED <<harness, sim, sock, rx, gui, trace>>

\* 5. line coding, for the plot only
TxLineEncode ==
    /\ tx.pc = "line_encode"
    /\ tx' = [tx EXCEPT !.pc = "modulate"]
    /\ gui' = [gui EXCEPT !.tx =
                 @ \o <<Callback("log", "5. (Fisica)", tx.config.mod_digital_type, <<>>),
                        Callback("plot_digital", "", "", tx.frame)>>]
    /\ UNCHANGED <<harness, sim, sock, rx, trace>>

\* 6. carrier modulation
TxModulate ==
    /\ tx.pc = "modulate"
    /\ LET mod_portadora == tx.config.mod_portadora_type
           analog_signal == modulate(tx.frame, mod_portadora)
       IN  /\ tx' = [tx EXCEPT !.pc = "connect", !.analog_signal = analog_signal]
           /\ gui' = [gui EXCEPT !.tx =
                        @ \o <<Callback("log", "6. (Fisica)", mod_portadora, <<>>),
                               Callback("plot_analog", "", "", tx.frame)>>
                          \o (IF mod_portadora = "8-QAM"
                              THEN <<Callback("plot_constellation", "", "", tx.frame)>>
                              ELSE <<>>)]
    /\ UNCHANGED <<harness, sim, sock, rx, trace>>

\* s.connect((HOST, PORT)): refused while no receiver listens; the receiver
\* serves one connection at a time, so this one is taken up once the
\* connection before it has been dealt with
TxConnect ==
    /\ tx.pc = "connect"
    /\ IF rx.pc = "parado"
       THEN TxRaise("[Errno 111] Connection refused") /\ UNCHANGED sock
       ELSE /\ sock.estado = "closed" \/ (sock.estado = "accepted" /\ rx.pc = "accept")
            /\ tx' = [tx EXCEPT !.pc = "send"]
            /\ sock' = [estado |-> "pending", metadata |-> <<>>,
                        signal |-> modulate(<<>>, "Nenhum"), eof |-> FALSE]
    /\ UNCHANGED <<harness, sim, rx, gui, trace>>

\* 7. the 14 metadata fields written into one string with '|' between them,
\* the signal, the final status; leaving the with block closes the socket.
\* A float (taxa_erros, amplitude) is held in tenths.
TxSend ==
    /\ tx.pc = "send"
    /\ LET config == tx.config
           \* f"{n}" for an int
           str[n \in Nat] ==
               IF n < 10 THEN <<48 + n>> ELSE Append(str[n \div 10], 48 + (n % 10))
           \* f"{x}" for a float with one decimal
           repr(tenths) == str[tenths \div 10] \o <<46, 48 + (tenths % 10)>>
           fields ==
               <<config.message,
                 Spelling[config.enquadramento_type],
                 Spelling[config.mod_digital_type],
                 Spelling[config.mod_portadora_type],
                 Spelling[config.detecao_erro_type],
                 Spelling[config.correcao_erro_type],
                 repr(config.taxa_erros),
                 str[1000], str[5000], repr(10), str[20000],
                 str[config.original_payload_len],
                 str[config.qam_pad],
                 str[config.original_message_len_bits]>>
           joined[k \in 1..14] ==
               IF k = 1 THEN fields[1] ELSE joined[k - 1] \o <<124>> \o fields[k]
           final_metadata_str == joined[14]
       IN  sock' = [sock EXCEPT !.metadata = final_metadata_str,
                                !.signal = tx.analog_signal,
                                !.eof = TRUE]
    /\ tx' = [tx EXCEPT !.pc = "fim"]
    /\ gui' = TxCallback(Callback("status", "Transmissao concluida!", "", <<>>))
    /\ UNCHANGED <<harness, sim, rx, trace>>

\* except Exception as e
TxExcept ==
    /\ tx.pc = "except"
    /\ tx' = [tx EXCEPT !.pc = "fim"]
    /\ gui' = TxCallback(Callback("status", "Erro critico: ", tx.excecao, <<>>))
    /\ UNCHANGED <<harness, sim, sock, rx, trace>>

\* a client other than run_transmitter connects to HOST:PORT and closes after
\* sending nothing (conn.recv(1024) then returns b'') or the one byte 'A'
PeerConnectsAndCloses ==
    /\ rx.pc = "accept"
    /\ sock.estado = "closed"
    /\ \E sent \in {<<>>, <<65>>} :
          sock' = [sock EXCEPT !.estado = "pending", !.metadata = sent, !.eof = TRUE]
    /\ UNCHANGED <<harness, sim, tx, rx, gui, trace>>

\* server socket bound and listening
RxStart ==
    /\ rx.pc = "parado"
    /\ rx' = [rx EXCEPT !.pc = "accept"]
    /\ gui' = RxCallback(Callback("connection_status", "--- SERVIDOR INICIADO ---", "", <<>>))
    /\ UNCHANGED <<harness, sim, tx, sock, trace>>

\* server_socket.accept()
RxAccept ==
    /\ rx.pc = "accept"
    /\ sock.estado = "pending"
    /\ rx' = [rx EXCEPT !.pc = "metadata"]
    /\ sock' = [sock EXCEPT !.estado = "accepted"]
    /\ gui' = RxCallback(Callback("new_connection", "", "", <<>>))
    /\ UNCHANGED <<harness, sim, tx, trace>>

\* conn.recv(1024) returns once the peer has sent or closed; the metadata is
\* split at every '|' and its fields converted.  int() and float() are given
\* the syntax run_transmitter writes (digits; digits '.' digit) and raise
\* ValueError on anything else; a float is held in tenths.
RxMetadata ==
    /\ rx.pc = "metadata"
    /\ sock.metadata # <<>> \/ sock.eof
    /\ LET metadata_str == sock.metadata
           \* <<the parts closed by a '|' so far, the part being read>>
           step[prev \in Seq(Seq(Int)) \X Seq(Int), i \in Nat] ==
               IF metadata_str[i] = 124
               THEN <<Append(prev[1], prev[2]), <<>>>>
               ELSE <<prev[1], Append(prev[2], metadata_str[i])>>
           split == ForRange(step, 1, Len(metadata_str), <<<<>>, <<>>>>)
           isdigit(s) == s # <<>> /\ \A i \in 1..Len(s) : s[i] \in 48..57
           int(s) == LET acc[i \in 0..Len(s)] ==
                             IF i = 0 THEN 0 ELSE 10 * acc[i - 1] + (s[i] - 48)
                     IN  acc[Len(s)]
           decimal(s) == /\ Len(s) >= 3 /\ s[Len(s) - 1] = 46
                         /\ isdigit(SubSeq(s, 1, Len(s) - 2))
                         /\ isdigit(SubSeq(s, Len(s), Len(s)))
           isfloat(s) == isdigit(s) \/ decimal(s)
           float(s) == IF isdigit(s) THEN 10 * int(s)
                       ELSE 10 * int(SubSeq(s, 1, Len(s) - 2)) + (s[Len(s)] - 48)
           \* the scheme name spelled by s; a text that spells none of them is
           \* no name the receiver knows
           name(s) == IF \E n \in DOMAIN Spelling : Spelling[n] = s
                      THEN CHOOSE n \in DOMAIN Spelling : Spelling[n] = s
                      ELSE "?"
       IN  \E parts \in {Append(split[1], split[2])} :
           IF metadata_str = <<>>
           THEN rx' = [rx EXCEPT !.pc = "finally"] /\ UNCHANGED gui
           ELSE IF Len(parts) < 14
           THEN RxRaise("Metadados incompletos recebidos: esperado >=14 partes") /\ UNCHANGED gui
           ELSE IF ~isfloat(parts[7]) \/ (/\ isdigit(parts[8]) /\ isdigit(parts[9])
                                          /\ ~isfloat(parts[10]))
           THEN RxRaise("could not convert string to float") /\ UNCHANGED gui
           ELSE IF \E k \in {8, 9, 11, 12} : ~isdigit(parts[k])
           THEN RxRaise("invalid literal for int() with base 10") /\ UNCHANGED gui
           ELSE LET qam_pad == IF isdigit(parts[13]) THEN int(parts[13]) ELSE 0
                    original_message_len_bits ==
                        IF isdigit(parts[14]) THEN int(parts[14]) ELSE 0
                    config == <<parts[1], name(parts[2]), name(parts[3]),
                                name(parts[4]), name(parts[5]), name(parts[6]),
                                float(parts[7]), int(parts[8]), int(parts[9]),
                                float(parts[10]), int(parts[11]), int(parts[12]),
                                qam_pad, original_message_len_bits>>
                IN  /\ rx' = [rx EXCEPT !.pc = "signal", !.parts = config]
                    /\ gui' = RxCallback(Callback("received_configs", "", "", config))
    /\ UNCHANGED <<harness, sim, tx, sock, trace>>

\* the signal up to end of stream; with taxa_erros > 0 Gaussian noise is added
\* to the samples, which leaves the carried bits as sent or inverts one
RxSignal ==
    /\ rx.pc = "signal"
    /\ sock.eof
    /\ LET received_signal == sock.signal
           taxa_erros == rx.parts[7]
       IN  \E S \in {{}} \cup
                    (IF taxa_erros > 0
                     THEN {{p} : p \in 1..Len(received_signal.bits)}
                     ELSE {}) :
              /\ rx' = [rx EXCEPT
                          !.pc = "demodulate",
                          !.noisy_signal =
                              [received_signal EXCEPT !.bits = FlipAt(@, S)]]
              /\ gui' = RxCallback(Callback("plot", "pre_demod", "",
                                            FlipAt(received_signal.bits, S)))
    /\ UNCHANGED <<harness, sim, tx, sock, trace>>

\* demodulation and removal of the 8-QAM padding
RxDemodulate ==
    /\ rx.pc = "demodulate"
    /\ LET mod_portadora_type == rx.parts[4]
           qam_pad == rx.parts[13]
           demodulated == demodulate(rx.noisy_signal, mod_portadora_type)
           demodulated_bits ==
               IF qam_pad > 0
               THEN SubSeq(demodulated, 1, Len(demodulated) - qam_pad)
               ELSE demodulated
       IN  /\ rx' = [rx EXCEPT !.pc = "deframe", !.demodulated_bits = demodulated_bits]
           /\ gui' = [gui EXCEPT !.rx =
                        @ \o <<Callback("plot", "post_demod", "", demodulated)>>
                          \o (IF mod_portadora_type = "8-QAM" /\ demodulated # <<>>
                              THEN <<Callback("plot", "constellation_rx", "", demodulated)>>
                              ELSE <<>>)]
    /\ trace' = Append(trace, "demodulate")
    /\ UNCHANGED <<harness, sim, tx, sock>>

RxDeframe_skips_correction ==
    /\ rx.pc = "deframe"
    /\ LET enquadramento == rx.parts[2]
           r == IF enquadramento = "Contagem de caracteres"
                THEN deframe_char_count(rx.demodulated_bits)
                ELSE IF enquadramento = "Byte Stuffing (Flags)"
                THEN deframe_byte_stuffing(rx.demodulated_bits)
                ELSE deframe_bit_stuffing(rx.demodulated_bits)
       IN  IF r.raised
           THEN RxRaise("Erro no desenquadramento - payload nulo.")
           ELSE rx' = [rx EXCEPT !.pc = "detect", !.payload = r.value,
                                 !.data_after_correction = r.value]
    /\ trace' = Append(trace, "deframe")
    /\ UNCHANGED <<harness, sim, tx, sock, gui>>

\* de-framing; a payload of None is an error
RxDeframe ==
    /\ rx.pc = "deframe"
    /\ LET enquadramento == rx.parts[2]
           r == IF enquadramento = "Contagem de caracteres"
                THEN deframe_char_count(rx.demodulated_bits)
                ELSE IF enquadramento = "Byte Stuffing (Flags)"
                THEN deframe_byte_stuffing(rx.demodulated_bits)
                ELSE deframe_bit_stuffing(rx.demodulated_bits)
       IN  IF r.raised
           THEN RxRaise("Erro no desenquadramento - payload nulo.")
           ELSE rx' = [rx EXCEPT !.pc = "correct", !.payload = r.value]
    /\ trace' = Append(trace, "deframe")
    /\ UNCHANGED <<harness, sim, tx, sock, gui>>

\* Hamming decoding of the payload, and the hamming_status update
RxCorrect ==
    /\ rx.pc = "correct"
    /\ IF rx.parts[6] = "Hamming"
       THEN LET decoded == decode_hamming(rx.payload)
            IN  /\ rx' = [rx EXCEPT !.pc = "detect",
                                    !.data_after_correction = decoded[1],
                                    !.relatorio_hamming = decoded[2]]
                /\ gui' = RxCallback(Callback("hamming_status", decoded[2], "", <<>>))
                /\ trace' = Append(trace, "hamming_correct")
       ELSE /\ rx' = [rx EXCEPT !.pc = "detect",
                                !.data_after_correction = rx.payload,
                                !.relatorio_hamming = "N/A (correcao desativada)"]
            /\ gui' = RxCallback(Callback("hamming_status", "N/A (correcao desativada)", "", <<>>))
            /\ UNCHANGED trace
    /\ UNCHANGED <<harness, sim, tx, sock>>

\* CRC-32: the last 32 bits are taken off the corrected data
RxCrcSplit ==
    /\ rx.pc = "detect"
    /\ rx.parts[5] = "CRC-32"
    /\ LET data_after_correction == rx.data_after_correction
           n == Len(data_after_correction)
       IN  IF n < 32
           THEN RxRaise("Dados corrigidos menores que tamanho do CRC-32 (32 bits)") /\ UNCHANGED trace
           ELSE /\ rx' = [rx EXCEPT
                            !.pc = "crc_verify",
                            !.dados_decodificados = SubSeq(data_after_correction, 1, n - 32),
                            !.crc_recebido = SubSeq(data_after_correction, n - 31, n)]
                /\ trace' = Append(trace, "detect_strip")
    /\ UNCHANGED <<harness, sim, tx, sock, gui>>

\* CRC-32: the CRC of what is left is recomputed and compared
RxCrcVerify ==
    /\ rx.pc = "crc_verify"
    /\ LET crc_gerado == generate_crc(rx.dados_decodificados)
           detecao_ok == (crc_gerado = rx.crc_recebido)
       IN  /\ rx' = [rx EXCEPT !.pc = "deliver", !.detecao_ok = detecao_ok]
           /\ gui' = RxCallback(Callback("detection_result", "CRC-32",
                                         IF detecao_ok THEN "OK" ELSE "INVALIDO",
                                         crc_gerado \o rx.crc_recebido))
    /\ trace' = Append(trace, "detect_verify")
    /\ UNCHANGED <<harness, sim, tx, sock>>

\* even parity: the 8-bit blocks that fail the check are counted
RxParityVerify ==
    /\ rx.pc = "detect"
    /\ rx.parts[5] = "Paridade Par"
    /\ LET data_after_correction == rx.data_after_correction
           chunk(k) == SubSeq(data_after_correction, 8 * k - 7, 8 * k)
       IN  IF Len(data_after_correction) % 8 # 0
           THEN RxRaise("Tamanho de dados invalido para verificacao de paridade par (esquema 8-bit)") /\ UNCHANGED trace
           ELSE /\ rx' = [rx EXCEPT
                            !.pc = "parity_strip",
                            !.erros = Cardinality(
                                {k \in 1..(Len(data_after_correction) \div 8) :
                                    ~check_even_parity(chunk(k))})]
                /\ trace' = Append(trace, "detect_verify")
    /\ UNCHANGED <<harness, sim, tx, sock, gui>>

\* even parity: the parity bit of every block is dropped, then the verdict
RxParityStrip ==
    /\ rx.pc = "parity_strip"
    /\ LET data_after_correction == rx.data_after_correction
           kept == {k \in 1..Len(data_after_correction) : k % 8 # 0}
           dados_decodificados ==
               SelectSeq(SeqOf([k \in 1..Len(data_after_correction) |->
                                   IF k \in kept THEN data_after_correction[k] ELSE 2]),
                         LAMBDA b : b # 2)
           detecao_ok == (rx.erros = 0)
       IN  /\ rx' = [rx EXCEPT !.pc = "deliver",
                               !.dados_decodificados = dados_decodificados,
                               !.detecao_ok = detecao_ok]
           /\ gui' = RxCallback(Callback("detection_result", "Paridade Par",
                                         IF detecao_ok THEN "OK" ELSE "INVALIDO",
                                         <<rx.erros>>))
    /\ trace' = Append(trace, "detect_strip")
    /\ UNCHANGED <<harness, sim, tx, sock>>

\* no detection: the data is taken as valid
RxNoDetect ==
    /\ rx.pc = "detect"
    /\ rx.parts[5] \notin {"CRC-32", "Paridade Par"}
    /\ rx' = [rx EXCEPT !.pc = "deliver",
                        !.detecao_ok = TRUE,
                        !.dados_decodificados = rx.data_after_correction]
    /\ gui' = RxCallback(Callback("detection_result", "Nenhuma", "N/A", <<>>))
    /\ UNCHANGED <<harness, sim, tx, sock, trace>>

RxDeliver_best_effort ==
    /\ rx.pc = "deliver"
    /\ LET original_message_len_bits == rx.parts[14]
           message == rx.parts[1]
           dados_decodificados ==
               IF rx.detecao_ok /\ original_message_len_bits > 0
               THEN SubSeq(rx.dados_decodificados, 1,
                           IF original_message_len_bits < Len(rx.dados_decodificados)
                           THEN original_message_len_bits
                           ELSE Len(rx.dados_decodificados))
               ELSE rx.dados_decodificados
           mensagem_final ==
               binary_to_text(dados_decodificados)
           ideal_bits == IF \A k \in 1..Len(message) : message[k] \in {48, 49}
                         THEN SeqOf([k \in 1..Len(message) |-> message[k] - 48])
                         ELSE text_to_binary(message)
           corrected_bits == dados_decodificados
           min_len == IF Len(ideal_bits) < Len(corrected_bits)
                      THEN Len(ideal_bits) ELSE Len(corrected_bits)
           num_erros ==
               Cardinality({k \in 1..min_len : ideal_bits[k] # corrected_bits[k]})
               + (Len(ideal_bits) + Len(corrected_bits) - 2 * min_len)
           status_msg == IF ~Contains(mensagem_final, TxtErro)
                         THEN "Processo Concluido!" ELSE "Falha na Integridade dos Dados!"
       IN  /\ rx' = [rx EXCEPT !.pc = "finally",
                               !.dados_decodificados = dados_decodificados,
                               !.mensagem_final = mensagem_final]
           /\ gui' = [gui EXCEPT !.rx =
                        @ \o <<Callback("final_message", "", "", mensagem_final),
                               Callback("decode_status", status_msg, "", <<>>),
                               Callback("metrics", rx.relatorio_hamming, "",
                                        <<num_erros>>)>>]
    /\ UNCHANGED <<harness, sim, tx, sock, trace>>

\* truncation to the original length, the final message, status and metrics
RxDeliver ==
    /\ rx.pc = "deliver"
    /\ LET original_message_len_bits == rx.parts[14]
           message == rx.parts[1]
           dados_decodificados ==
               IF rx.detecao_ok /\ original_message_len_bits > 0
               THEN SubSeq(rx.dados_decodificados, 1,
                           IF original_message_len_bits < Len(rx.dados_decodificados)
                           THEN original_message_len_bits
                           ELSE Len(rx.dados_decodificados))
               ELSE rx.dados_decodificados
           mensagem_final ==
               IF rx.detecao_ok THEN binary_to_text(dados_decodificados)
               ELSE TxtDadosCorrompidos
           \* '0' and '1' are the characters 48 and 49
           ideal_bits == IF \A k \in 1..Len(message) : message[k] \in {48, 49}
                         THEN SeqOf([k \in 1..Len(message) |-> message[k] - 48])
                         ELSE text_to_binary(message)
           corrected_bits == dados_decodificados
           min_len == IF Len(ideal_bits) < Len(corrected_bits)
                      THEN Len(ideal_bits) ELSE Len(corrected_bits)
           num_erros ==
               Cardinality({k \in 1..min_len : ideal_bits[k] # corrected_bits[k]})
               + (Len(ideal_bits) + Len(corrected_bits) - 2 * min_len)
           status_msg == IF ~Contains(mensagem_final, TxtErro)
                         THEN "Processo Concluido!" ELSE "Falha na Integridade dos Dados!"
       IN  /\ rx' = [rx EXCEPT !.pc = "finally",
                               !.dados_decodificados = dados_decodificados,
                               !.mensagem_final = mensagem_final]
           /\ gui' = [gui EXCEPT !.rx =
                        @ \o <<Callback("final_message", "", "", mensagem_final),
                               Callback("decode_status", status_msg, "", <<>>),
                               Callback("metrics", rx.relatorio_hamming, "",
                                        <<num_erros>>)>>]
    /\ UNCHANGED <<harness, sim, tx, sock, trace>>

\* except Exception as e
RxExcept ==
    /\ rx.pc = "except"
    /\ rx' = [rx EXCEPT !.pc = "finally"]
    /\ gui' = [gui EXCEPT !.rx =
                 @ \o <<Callback("decode_status", "Erro critico no receptor: ", rx.excecao, <<>>),
                        Callback("final_message", "", "",
                                 \* 'ERRO: A transmissao falhou.'
                                 TxtErro \o <<58, 32, 65, 32, 116, 114, 97, 110, 115, 109,
                                              105, 115, 115, 227, 111, 32, 102, 97, 108,
                                              104, 111, 117, 46>>)>>]
    /\ UNCHANGED <<harness, sim, tx, sock, trace>>

\* finally: back to waiting for the next connection
RxFinally ==
    /\ rx.pc = "finally"
    /\ rx' = [rx EXCEPT !.pc = "accept"]
    /\ gui' = RxCallback(Callback("connection_status", "Aguardando proxima transmissao.", "", <<>>))
    /\ UNCHANGED <<harness, sim, tx, sock, trace>>

GuiProcessQueue_concluida_only ==
    /\ gui.processed < Len(gui.tx)
    /\ LET pending == SubSeq(gui.tx, gui.processed + 1, Len(gui.tx))
           concluida_in(msg) == msg.message = "Transmissao concluida!"
           enables(msg) == msg.type = "status" /\ concluida_in(msg)
       IN  gui' = [gui EXCEPT
                     !.processed = Len(gui.tx),
                     !.send_button = IF \E k \in 1..Len(pending) : enables(pending[k])
                                     THEN "normal" ELSE @]
    /\ UNCHANGED <<harness, sim, tx, sock, rx, trace>>

\* TransmissorGUI.process_queue, run by the Tk main loop every 100 ms: every
\* update queued since the last run is taken; a 'status' update whose text
\* contains 'concluida' or 'Erro' sets the send button back to normal
GuiProcessQueue ==
    /\ gui.processed < Len(gui.tx)
    /\ LET pending == SubSeq(gui.tx, gui.processed + 1, Len(gui.tx))
           \* "concluida" in msg['message'] or "Erro" in msg['message'], over
           \* the fixed texts of run_transmitter and the texts of its exceptions
           concluida_in(msg) == msg.message = "Transmissao concluida!"
           Erro_in(msg) == msg.message = "Erro critico: "
           enables(msg) == msg.type = "status" /\ (concluida_in(msg) \/ Erro_in(msg))
       IN  gui' = [gui EXCEPT
                     !.processed = Len(gui.tx),
                     !.send_button = IF \E k \in 1..Len(pending) : enables(pending[k])
                                     THEN "normal" ELSE @]
    /\ UNCHANGED <<harness, sim, tx, sock, rx, trace>>

NextRun ==
    \/ TxStart \/ TxApp \/ TxDetect \/ TxCorrect \/ TxFrame \/ TxQamPad
    \/ TxLineEncode \/ TxModulate \/ TxConnect \/ TxSend \/ TxExcept
    \/ RxStart \/ RxAccept \/ RxMetadata \/ RxSignal \/ RxDemodulate
    \/ RxDeframe \/ RxCorrect \/ RxCrcSplit \/ RxCrcVerify
    \/ RxParityVerify \/ RxParityStrip \/ RxNoDetect \/ RxDeliver
    \/ RxExcept \/ RxFinally \/ PeerConnectsAndCloses

SpecRun == InitRun /\ [][NextRun]_vars

\* One press of the send button: run_transmitter in its thread and the GUI
\* taking its updates, with the receiver listening or not.  The thread keeps
\* running until run_transmitter returns and the Tk main loop keeps calling
\* process_queue.
NextTxGui ==
    \/ TxStart \/ TxApp \/ TxDetect \/ TxCorrect \/ TxFrame \/ TxQamPad
    \/ TxLineEncode \/ TxModulate \/ TxConnect \/ TxSend \/ TxExcept
    \/ RxStart \/ GuiProcessQueue

\* Weak fairness of every step of the thread and of process_queue.  TxDetect,
\* TxCorrect and TxFrame are enabled exactly while tx.pc is their step and
\* each of them leaves it, so their weak fairness is written as the recurrence
\* it amounts to.
SpecTxGui ==
    /\ InitRun /\ [][NextTxGui]_vars
    /\ WF_vars(TxStart \/ TxApp \/ TxQamPad \/ TxLineEncode \/ TxModulate
                 \/ TxConnect \/ TxSend \/ TxExcept)
    /\ \A step \in {"detect", "correct", "frame"} : []<>(tx.pc # step)
    /\ WF_vars(GuiProcessQueue)

C18_OneTerminalOutcome ==
    LET log == gui.rx
        ended(i) == {j \in (i + 1)..Len(log) : log[j].type = "connection_status"}
        last(i) == CHOOSE j \in ended(i) : \A k \in ended(i) : j <= k
        count(i, type) == Cardinality({k \in i..last(i) : log[k].type = type})
    IN  \A i \in 1..Len(log) :
            (log[i].type = "new_connection" /\ ended(i) # {})
                => count(i, "final_message") = 1 /\ count(i, "decode_status") = 1

\* C20: the metadata string run_transmitter writes is parsed by run_receiver
\* into the same 14 field values in the same order, for every message and
\* configuration: parsing it raises nothing, config['message'] is the message
\* sent, and the scheme names and lengths sit where they were written.
C20_MetadataRoundTrip ==
    (tx.pc = "fim" /\ tx.excecao = "")
        => /\ rx.pc = "except"
                => rx.excecao \notin
                      {"Metadados incompletos recebidos: esperado >=14 partes",
                       "could not convert string to float",
                       "invalid literal for int() with base 10"}
           /\ rx.pc = "signal"
                => rx.parts = <<tx.config.message,
                               tx.config.enquadramento_type,
                               tx.config.mod_digital_type,
                               tx.config.mod_portadora_type,
                               tx.config.detecao_erro_type,
                               tx.config.correcao_erro_type,
                               tx.config.taxa_erros,
                               1000, 5000, 10, 20000,
                               tx.config.original_payload_len,
                               tx.config.qam_pad,
                               tx.config.original_message_len_bits>>

\* C25: whenever error detection fails in run_receiver (the CRC-32 recomputed
\* over the data differs from the received one, or at least one 8-bit block
\* has odd parity), the one final message delivered is the fixed text
\* 'ERRO: DADOS CORROMPIDOS.', and it is not the text of the decoded payload.
C25_CorruptDataNotDelivered ==
    [][ ( /\ rx.pc = "deliver" /\ rx'.pc = "finally"
          /\ \/ /\ rx.parts[5] = "CRC-32"
                /\ generate_crc(rx.dados_decodificados) # rx.crc_recebido
             \/ /\ rx.parts[5] = "Paridade Par"
                /\ rx.erros > 0 )
        => LET emitted == SubSeq(gui'.rx, Len(gui.rx) + 1, Len(gui'.rx))
               finals == {k \in 1..Len(emitted) : emitted[k].type = "final_message"}
           IN  /\ Cardinality(finals) = 1
               /\ \A k \in finals :
                      /\ emitted[k].data = TxtDadosCorrompidos
                      /\ emitted[k].data # binary_to_text(rx'.dados_decodificados) ]_vars

\* a failed CRC-32 check answered with the fixed text
C25_Witness ==
    /\ rx.pc = "finally" /\ ~rx.detecao_ok
    /\ rx.mensagem_final = TxtDadosCorrompidos
    /\ rx.parts[5] = "CRC-32"
    /\ generate_crc(rx.dados_decodificados) # rx.crc_recebido
    /\ \E k \in 1..Len(gui.rx) :
          gui.rx[k].type = "final_message" /\ gui.rx[k].data = TxtDadosCorrompidos

\* C29: the decode status of run_receiver is 'Processo Concluido!' whenever
\* error detection succeeded and nothing was raised, and 'Falha na Integridade
\* dos Dados!' is reported only when error detection failed, whatever the
\* decoded text says.
C29_StatusFollowsDetection ==
    [][ (rx.pc = "deliver" /\ rx'.pc = "finally")
        => LET emitted == SubSeq(gui'.rx, Len(gui.rx) + 1, Len(gui'.rx))
           IN  \A k \in 1..Len(emitted) :
                  emitted[k].type = "decode_status"
                      => emitted[k].message =
                             IF rx.detecao_ok THEN "Processo Concluido!"
                             ELSE "Falha na Integridade dos Dados!" ]_vars

-----------------------------------------------------------------------------
(* CamadaFisica/modulacoes_digitais.py : line codes.  A signal is the       *)
(* sequence of its samples; the three levels +1.0, 0.0 and -1.0 are the     *)
(* integers 1, 0 and -1.                                                     *)

nrz_polar(bits) ==
    SeqOf([i \in 1..Len(bits) |-> IF bits[i] = 1 THEN 1 ELSE -1])

manchester(bits) ==
    LET step[signal \in Seq(Int), i \in Nat] ==
            IF bits[i] = 1 THEN signal \o <<-1, 1>> ELSE signal \o <<1, -1>>
    IN  ForRange(step, 1, Len(bits), <<>>)

bipolar_same_sign(bits) ==
    LET step[prev \in Seq(Int) \X Int, i \in Nat] ==
            IF bits[i] = 0
            THEN <<Append(prev[1], 0), prev[2]>>
            ELSE <<Append(prev[1], prev[2]), prev[2]>>
        loop == ForRange(step, 1, Len(bits), <<<<>>, 1>>)
    IN  loop[1]

bipolar(bits) ==
    LET \* <<signal, last_one_voltage>> after bit i
        step[prev \in Seq(Int) \X Int, i \in Nat] ==
            IF bits[i] = 0
            THEN <<Append(prev[1], 0), prev[2]>>
            ELSE <<Append(prev[1], prev[2]), prev[2] * (-1)>>
        loop == ForRange(step, 1, Len(bits), <<<<>>, 1>>)
    IN  loop[1]

decodificar_nrz_polar(signal) ==
    SeqOf([i \in 1..Len(signal) |-> IF signal[i] >= 0 THEN 1 ELSE 0])

decodificar_manchester_inverted(signal) ==
    LET step[bits \in Seq(Bit), k \in Nat] ==
            IF 2 * k + 1 < Len(signal)
            THEN LET first_sample == signal[2 * k + 1]
                     second_sample == signal[2 * k + 2]
                 IN  IF first_sample < second_sample THEN Append(bits, 0)
                     ELSE IF first_sample > second_sample THEN Append(bits, 1)
                     ELSE bits
            ELSE bits
    IN  ForRange(step, 0, ((Len(signal) + 1) \div 2) - 1, <<>>)

\* sample pair k holds signal[2k] and signal[2k + 1], 0-indexed
decodificar_manchester(signal) ==
    LET step[bits \in Seq(Bit), k \in Nat] ==
            IF 2 * k + 1 < Len(signal)
            THEN LET first_sample == signal[2 * k + 1]
                     second_sample == signal[2 * k + 2]
                 IN  IF first_sample < second_sample THEN Append(bits, 1)
                     ELSE IF first_sample > second_sample THEN Append(bits, 0)
                     ELSE bits
            ELSE bits
    IN  ForRange(step, 0, ((Len(signal) + 1) \div 2) - 1, <<>>)

decodificar_bipolar(signal) ==
    SeqOf([i \in 1..Len(signal) |-> IF signal[i] = 0 THEN 0 ELSE 1])

\* MODULACOES_DIGITAIS_TX[data.tipo](data.bits)
LineEncode ==
    Framed(Returned(CASE data.tipo = "NRZ-Polar" -> nrz_polar(data.bits)
                      [] data.tipo = "Manchester" -> manchester(data.bits)
                      [] data.tipo = "Bipolar" -> bipolar(data.bits)))

\* MODULACOES_DIGITAIS_RX[data.tipo](recv)
LineDecode ==
    Deframed(Returned(CASE data.tipo = "NRZ-Polar" -> decodificar_nrz_polar(recv)
                        [] data.tipo = "Manchester" -> decodificar_manchester(recv)
                        [] data.tipo = "Bipolar" -> decodificar_bipolar(recv)))

NextLineCode == LineEncode \/ Delivered \/ LineDecode

SpecLineCode ==
    InitFraming([tipo : {"NRZ-Polar", "Manchester", "Bipolar"},
                 bits : BitStrings(0, MaxLineBits)])
        /\ [][NextLineCode]_vars

\* C12: for each of NRZ-Polar, Manchester and Bipolar AMI and every bit string,
\* all-zero, all-one and alternating ones included, decoding the noiseless
\* output of the encoder returns the bit string that was encoded.
C12_LineCodeRoundTrip ==
    phase = "deframed" => result = data.bits

C12_Witness ==
    /\ phase = "deframed" /\ data.tipo = "Manchester"
    /\ data.bits = <<1, 0, 1, 0>> /\ Len(recv) = 8 /\ result = data.bits

\* C23: bipolar maps every '0' to 0 and the '1's of one call to pulses that
\* alternate in sign, the first of the call being +1 whatever was encoded
\* before (1,0,1,1 gives +1,0,-1,+1); every prefix sum of the signal is 0 or +1.
C23_BipolarAlternates ==
    (phase = "framed" /\ data.tipo = "Bipolar")
        => LET bits == data.bits
               ones_before(i) == Cardinality({j \in 1..(i - 1) : bits[j] = 1})
               prefix[k \in 0..Len(coded)] ==
                   IF k = 0 THEN 0 ELSE prefix[k - 1] + coded[k]
           IN  /\ Len(coded) = Len(bits)
               /\ \A i \in 1..Len(bits) :
                      coded[i] = IF bits[i] = 0 THEN 0
                                 ELSE IF ones_before(i) % 2 = 0 THEN 1 ELSE -1
               /\ \A k \in 0..Len(coded) : prefix[k] \in {0, 1}

C23_Witness ==
    /\ phase = "framed" /\ data.tipo = "Bipolar"
    /\ data.bits = <<1, 0, 1, 1>> /\ coded = <<1, 0, -1, 1>>

\* C24: manchester maps every bit 1 to the sample pair (+1, -1) and every bit
\* 0 to the pair (-1, +1), so that 1,0 is encoded as 1,-1,-1,1.
C24_ManchesterHighLowForOne ==
    (phase = "framed" /\ data.tipo = "Manchester")
        => /\ Len(coded) = 2 * Len(data.bits)
           /\ \A i \in 1..Len(data.bits) :
                  <<coded[2 * i - 1], coded[2 * i]>> =
                      IF data.bits[i] = 1 THEN <<1, -1>> ELSE <<-1, 1>>

-----------------------------------------------------------------------------
(* CamadaFisica/modulacoes_portadora.py : the sample counts CarrierModulator *)
(* derives from bit_rate and sampling_rate.  int(a / b) of two non-negative  *)
(* integers is a \div b; a division by zero raises ZeroDivisionError.        *)

\* CarrierModulator(bit_rate, carrier_freq, amplitude, sampling_rate)
CarrierModulator(bit_rate, carrier_freq, amplitude, sampling_rate) ==
    IF bit_rate = 0
    THEN Raised("division by zero")
    ELSE Returned([bit_rate |-> bit_rate,
                   carrier_freq |-> carrier_freq,
                   amplitude |-> amplitude,
                   sampling_rate |-> sampling_rate,
                   samples_per_bit |-> sampling_rate \div bit_rate])

\* the bits _demodulate_ask decides: one per whole group of samples_per_bit
\* samples of the received signal
demodulate_ask_num_bits(received_signal_len, config) ==
    IF config.bit_rate = 0
    THEN Raised("division by zero")
    ELSE LET samples_per_bit == config.sampling_rate \div config.bit_rate
         IN  IF samples_per_bit = 0
             THEN Raised("integer division or modulo by zero")
             ELSE Returned(received_signal_len \div samples_per_bit)

CarrierBuild ==
    Framed(CarrierModulator(data.bit_rate, 5000, 1, data.sampling_rate))

CarrierDemodulate ==
    /\ phase = "framed"
    /\ LET r == demodulate_ask_num_bits(data.received_signal_len,
                    [bit_rate |-> coded.bit_rate, sampling_rate |-> coded.sampling_rate])
       IN  IF r.raised
           THEN result' = Unset /\ status' = r.message /\ phase' = "demodulate_raised"
           ELSE result' = r.value /\ status' = "returned" /\ phase' = "demodulated"
    /\ UNCHANGED <<data, coded, flips, recv, pipeline>>

NextCarrier == CarrierBuild \/ CarrierDemodulate

SpecCarrier ==
    InitFraming([bit_rate : 0..MaxRate, sampling_rate : 0..MaxRate,
                 received_signal_len : 0..MaxSamples])
        /\ [][NextCarrier]_vars

\* C19: a configuration whose sampling_rate is no integer multiple of its
\* bit_rate is rejected when the CarrierModulator is built or, at the latest,
\* when it demodulates: the modulator is never left holding the truncated
\* quotient after use, and demodulation never returns a bit count for it.
C19_NonMultipleRejected ==
    (/\ data.bit_rate > 0
     /\ data.sampling_rate % data.bit_rate # 0
     /\ phase \in {"demodulated", "demodulate_raised"})
        => phase = "demodulate_raised"


-----------------------------------------------------------------------------
(* CamadaFisica/modulacoes_portadora.py : 8-QAM.  The carrier is sampled     *)
(* four times per cycle (the program's 20000 samples/s for 5000 Hz), where   *)
(* cos and sin take the values 1, 0, -1 only.  A sample, a constellation     *)
(* coordinate or a correlation sum is the pair <<a, b>> that stands for      *)
(* (a + b * sqrt(2)) / 2, so that 1 is <<2, 0>> and 1/sqrt(2) is <<0, 1>>.   *)
(* The rounding of the float sums (about 1e-15) is far below the distance    *)
(* between two constellation points and is left out.                         *)

\* QAM8_MAP: the point <<I, Q>> of each 3-bit symbol, in the dict's order
QAM8_MAP ==
    [s \in [1..3 -> Bit] |->
        CASE s = <<0, 0, 0>> -> <<<<2, 0>>, <<0, 0>>>>
          [] s = <<0, 0, 1>> -> <<<<0, 0>>, <<2, 0>>>>
          [] s = <<0, 1, 0>> -> <<<<-2, 0>>, <<0, 0>>>>
          [] s = <<0, 1, 1>> -> <<<<0, 0>>, <<-2, 0>>>>
          [] s = <<1, 0, 0>> -> <<<<0, 1>>, <<0, 1>>>>
          [] s = <<1, 0, 1>> -> <<<<0, 1>>, <<0, -1>>>>
          [] s = <<1, 1, 0>> -> <<<<0, -1>>, <<0, 1>>>>
          [] s = <<1, 1, 1>> -> <<<<0, -1>>, <<0, -1>>>>]

\* modulate_8qam(bits) of a CarrierModulator: the samples of the signal
modulate_8qam(bits, modulator) ==
    LET padded == IF Len(bits) % 3 # 0
                  THEN bits \o Zeros(3 - (Len(bits) % 3)) ELSE bits
        symbols == [i \in 0..(Len(padded) \div 3 - 1) |->
                       SubSeq(padded, 3 * i + 1, 3 * i + 3)]
        samples_per_bit == modulator.sampling_rate \div modulator.bit_rate
        samples_per_symbol == samples_per_bit * 3
        \* 2 * pi * carrier_freq * t[k] in quarter turns, t[k] being the k-th
        \* point of linspace(0, n * 3 / bit_rate, n * samples_per_symbol)
        quarter(k) == ((4 * modulator.carrier_freq * k)
                          \div (modulator.bit_rate * samples_per_bit)) % 4
        cos(k) == CASE quarter(k) = 0 -> 1 [] quarter(k) = 2 -> -1 [] OTHER -> 0
        sin(k) == CASE quarter(k) = 1 -> 1 [] quarter(k) = 3 -> -1 [] OTHER -> 0
        sample(k) ==
            LET point == QAM8_MAP[symbols[k \div samples_per_symbol]]
                i_comp == point[1]
                q_comp == point[2]
            IN  <<modulator.amplitude * (i_comp[1] * cos(k) - q_comp[1] * sin(k)),
                  modulator.amplitude * (i_comp[2] * cos(k) - q_comp[2] * sin(k))>>
    IN  SeqOf([n \in 1..((Len(padded) \div 3) * samples_per_symbol) |-> sample(n - 1)])

demodulate_8qam_same_sign(received_signal, modulator) ==
    LET samples_per_bit == modulator.sampling_rate \div modulator.bit_rate
        samples_per_symbol == samples_per_bit * 3
        num_symbols == Len(received_signal) \div samples_per_symbol
        quarter(k) == ((4 * modulator.carrier_freq * k)
                          \div (modulator.bit_rate * samples_per_bit)) % 4
        cos(k) == CASE quarter(k) = 0 -> 1 [] quarter(k) = 2 -> -1 [] OTHER -> 0
        sin(k) == CASE quarter(k) = 1 -> 1 [] quarter(k) = 3 -> -1 [] OTHER -> 0
        sum(f(_), lo, hi) ==
            LET add(x, y) == <<x[1] + y[1], x[2] + y[2]>>
                acc[j \in (lo - 1)..hi] ==
                    IF j < lo THEN <<0, 0>> ELSE add(acc[j - 1], f(j))
            IN  acc[hi]
        sq(x) == <<x[1] * x[1] + 2 * x[2] * x[2], 2 * x[1] * x[2]>>
        negative(x) ==
            IF x[2] = 0 THEN x[1] < 0
            ELSE IF x[1] = 0 THEN x[2] < 0
            ELSE IF x[1] < 0 /\ x[2] < 0 THEN TRUE
            ELSE IF x[1] > 0 /\ x[2] > 0 THEN FALSE
            ELSE IF x[1] < 0 THEN x[1] * x[1] > 2 * x[2] * x[2]
            ELSE 2 * x[2] * x[2] > x[1] * x[1]
        order == [k \in 1..8 |-> FormatBin(k - 1, 3)]
        nearest(received, n) ==
            LET distance(c) ==
                    LET di == sq(<<received[1][1] - n * c[1][1], received[1][2] - n * c[1][2]>>)
                        dq == sq(<<received[2][1] - n * c[2][1], received[2][2] - n * c[2][2]>>)
                    IN  <<di[1] + dq[1], di[2] + dq[2]>>
                first_of(distances) ==
                    CHOOSE k \in 1..8 :
                        /\ \A j \in 1..8 :
                              ~negative(<<distances[j][1] - distances[k][1],
                                          distances[j][2] - distances[k][2]>>)
                        /\ \A j \in 1..(k - 1) :
                              negative(<<distances[k][1] - distances[j][1],
                                         distances[k][2] - distances[j][2]>>)
            IN  order[first_of(SeqOf([k \in 1..8 |-> distance(QAM8_MAP[order[k]])]))]
        decide(i) ==
            LET first == i * samples_per_symbol
                last == first + samples_per_symbol - 1
                i_of(k) == <<received_signal[k + 1][1] * cos(k),
                             received_signal[k + 1][2] * cos(k)>>
                q_of(k) == <<received_signal[k + 1][1] * sin(k),
                             received_signal[k + 1][2] * sin(k)>>
                energy(k) == <<cos(k) * cos(k), 0>>
                scaled(i_component, q_component, normalization_factor) ==
                    IF normalization_factor > 0
                    THEN nearest(<<i_component, q_component>>, normalization_factor)
                    ELSE nearest(<<<<0, 0>>, <<0, 0>>>>, 1)
            IN  scaled(sum(i_of, first, last), sum(q_of, first, last),
                       modulator.amplitude * sum(energy, first, last)[1])
        bits[i \in 0..num_symbols] ==
            IF i = 0 THEN <<>> ELSE bits[i - 1] \o decide(i - 1)
    IN  bits[num_symbols]

\* _demodulate_8qam(received_signal, config, digital_encoder_instance) with
\* the modulator's own rates in config and no 'original_payload_len': the
\* bits it returns
demodulate_8qam(received_signal, modulator) ==
    LET samples_per_bit == modulator.sampling_rate \div modulator.bit_rate
        samples_per_symbol == samples_per_bit * 3
        num_symbols == Len(received_signal) \div samples_per_symbol
        quarter(k) == ((4 * modulator.carrier_freq * k)
                          \div (modulator.bit_rate * samples_per_bit)) % 4
        cos(k) == CASE quarter(k) = 0 -> 1 [] quarter(k) = 2 -> -1 [] OTHER -> 0
        sin(k) == CASE quarter(k) = 1 -> 1 [] quarter(k) = 3 -> -1 [] OTHER -> 0
        \* np.sum over the samples lo..hi
        sum(f(_), lo, hi) ==
            LET add(x, y) == <<x[1] + y[1], x[2] + y[2]>>
                acc[j \in (lo - 1)..hi] ==
                    IF j < lo THEN <<0, 0>> ELSE add(acc[j - 1], f(j))
            IN  acc[hi]
        \* x * x, and x < 0, for x = (x[1] + x[2] * sqrt(2)) / 2
        sq(x) == <<x[1] * x[1] + 2 * x[2] * x[2], 2 * x[1] * x[2]>>
        negative(x) ==
            IF x[2] = 0 THEN x[1] < 0
            ELSE IF x[1] = 0 THEN x[2] < 0
            ELSE IF x[1] < 0 /\ x[2] < 0 THEN TRUE
            ELSE IF x[1] > 0 /\ x[2] > 0 THEN FALSE
            ELSE IF x[1] < 0 THEN x[1] * x[1] > 2 * x[2] * x[2]
            ELSE 2 * x[2] * x[2] > x[1] * x[1]
        \* QAM8_MAP.values() in insertion order
        order == [k \in 1..8 |-> FormatBin(k - 1, 3)]
        \* the 3 bits of the first point of QAM8_MAP.values() nearest to
        \* received / n: min(..., key=lambda c: abs(received_point - c))
        nearest(received, n) ==
            LET distance(c) ==
                    LET di == sq(<<received[1][1] - n * c[1][1], received[1][2] - n * c[1][2]>>)
                        dq == sq(<<received[2][1] - n * c[2][1], received[2][2] - n * c[2][2]>>)
                    IN  <<di[1] + dq[1], di[2] + dq[2]>>
                first_of(distances) ==
                    CHOOSE k \in 1..8 :
                        /\ \A j \in 1..8 :
                              ~negative(<<distances[j][1] - distances[k][1],
                                          distances[j][2] - distances[k][2]>>)
                        /\ \A j \in 1..(k - 1) :
                              negative(<<distances[k][1] - distances[j][1],
                                         distances[k][2] - distances[j][2]>>)
            IN  order[first_of(SeqOf([k \in 1..8 |-> distance(QAM8_MAP[order[k]])]))]
        \* the 3 bits decided for symbol i
        decide(i) ==
            LET first == i * samples_per_symbol
                last == first + samples_per_symbol - 1
                i_of(k) == <<received_signal[k + 1][1] * cos(k),
                             received_signal[k + 1][2] * cos(k)>>
                q_of(k) == <<received_signal[k + 1][1] * (-sin(k)),
                             received_signal[k + 1][2] * (-sin(k))>>
                energy(k) == <<cos(k) * cos(k), 0>>
                scaled(i_component, q_component, normalization_factor) ==
                    IF normalization_factor > 0
                    THEN nearest(<<i_component, q_component>>, normalization_factor)
                    ELSE nearest(<<<<0, 0>>, <<0, 0>>>>, 1)
            IN  scaled(sum(i_of, first, last), sum(q_of, first, last),
                       modulator.amplitude * sum(energy, first, last)[1])
        bits[i \in 0..num_symbols] ==
            IF i = 0 THEN <<>> ELSE bits[i - 1] \o decide(i - 1)
    IN  bits[num_symbols]

\* modulate, hand the signal over unchanged, demodulate with the same object
SpecQam ==
    InitFraming({c \in [bits : BitStrings(0, MaxQamBits),
                        bit_rate : 1..MaxQamRate,
                        carrier_freq : 1..MaxQamFreq,
                        amplitude : 1..MaxQamAmplitude] :
                    (4 * c.carrier_freq) % c.bit_rate = 0})
        /\ [][\/ Framed(Returned(modulate_8qam(data.bits,
                     [data EXCEPT !.bits = <<>>] @@ [sampling_rate |-> 4 * data.carrier_freq])))
              \/ Delivered
              \/ Deframed(Returned(demodulate_8qam(recv,
                     [data EXCEPT !.bits = <<>>] @@ [sampling_rate |-> 4 * data.carrier_freq])))]_vars

=============================================================================
